---------------------------- MODULE Spec2Model ----------------------------
(***************************************************************************)
(* A model of the core of the Patmos simulator: the block stack cache      *)
(* (include/stack-cache.h), the LRU/FIFO method cache                      *)
(* (include/method-cache.h) and the cycle loop of the simulator            *)
(* (src/simulation-core.cc, include/instructions.h).                       *)
(*                                                                         *)
(* Every component has its own specification (SpecSC, SpecSCData, ...);    *)
(* the variables of the components a specification does not exercise keep  *)
(* the values their constructors give them.                                *)
(***************************************************************************)
EXTENDS Integers, Sequences, FiniteSets, TLC

(***************************************************************************)
(* Bounds of the model.                                                    *)
(***************************************************************************)
\* largest configured stack-cache size (num_blocks), in blocks
MaxCacheBlocks == 3
\* largest configured total stack size (num_blocks_total), in blocks
MaxTotalBlocks == 4
\* largest size argument of reserve/free/ensure, in blocks
MaxReqBlocks == 4
\* cap of the statistics counter Num_free_empty
MaxFreeEmpty == 1
\* value of the stack-top register st before the first stack operation; the
\* model stops spilling before st would fall below zero
StackTopInit == 16
\* stack-cache size and total size in the specification that tracks bytes
DataCacheBlocks == 1
DataTotalBlocks == 1
\* number of write accesses in the specification that tracks bytes
MaxWrites == 1

\* largest configured method-cache size (num_blocks), in blocks
MaxMethodCacheBlocks == 4

\* the size of the main memory, in bytes
MemoryBytes == 6
\* the cycles a run of the data path spends stalled, at most
MaxStallCycles == 3
\* the ticks a request created in an idle memory is timed for: more than the
\* longest transfer
MaxTicks == 8

(***************************************************************************)
(* Program constants.                                                      *)
(***************************************************************************)
NUM_STACK_CACHE_BLOCK_BYTES == 4
NUM_METHOD_CACHE_BLOCK_BYTES == 32
NUM_INIT_BLOCKS == 4
NUM_MEMORY_BLOCK_BYTES == 8
NUM_SLOTS == 2

VARIABLES
  \* ---- block_stack_cache_t ----
  sc_Num_blocks,            \* Num_blocks: size of the stack cache in blocks
  sc_Num_blocks_total,      \* Num_blocks_total
  sc_Phase,                 \* Phase: "IDLE", "SPILL", "FILL"
  sc_Num_transfer_blocks,   \* Num_transfer_blocks
  Num_reserved_blocks,
  Num_spilled_blocks,
  Num_free_empty,
  Num_write_accesses,
  Content,                  \* ideal_stack_cache_t::Content, a sequence of bytes
  Buffer,                   \* the bytes copied to Buffer for the pending spill
  stack_top,                \* the stack-top value threaded through the calls
  sc_exc,                   \* "none", or the exception that ended the simulation
  sc_call,                  \* the stack-cache call last issued, with its result
  mem_op,                   \* the access to Memory issued by the last call
  \* ---- lru_method_cache_t, fifo_method_cache_t ----
  mc_kind,                  \* "lru" or "fifo": the class of the method cache
  mc_Num_blocks,            \* Num_blocks: size of the method cache in blocks
  mc_Phase,                 \* Phase: "IDLE", "SIZE", "TRANSFER"
  mc_Num_transfer_blocks,   \* Num_transfer_blocks
  Num_transfer_bytes,
  Methods,                  \* Methods[0 .. Num_blocks - 1], sorted by age
  Num_active_methods,
  Num_active_blocks,
  active_method,            \* fifo_method_cache_t::active_method
  mc_exc,                   \* "none", or what ended the simulation
  mc_call,                  \* the is_available call last issued, with its result
  \* ---- simulator_t ----
  BASE, PC, nPC,
  Cycle,                    \* 0 until the first cycle has been simulated
  running,                  \* run() has passed its initializations
  Pipeline,                 \* Pipeline[SIF .. SMW], first slot of the bundle
  rfb, rfo,                 \* GPR rfb, rfo: return base and return offset
  core_exc,                 \* "none", or what ended the run
  cyc,                      \* the cycle last simulated: where it stalled,
                            \* whether it fetched a bundle, and what the EX
                            \* stage did
  \* ---- fixed_delay_memory_t ----
  Num_bytes_per_burst,
  Num_ticks_per_burst,
  Num_read_delay_ticks,
  Num_posted_writes,
  mem_Content,              \* ideal_memory_t::Content
  Requests,                 \* the queue of request_info_t
  mem_exc,                  \* "none", or what ended the simulation
  mem_call,                 \* the access last issued, with its result
  issued,                   \* the request created while the memory was idle,
                            \* with the ticks elapsed since
  dp                        \* the simulator of the data path: registers,
                            \* memory, Pipeline[stage][slot], statistics

scVars == <<sc_Num_blocks, sc_Num_blocks_total, sc_Phase, sc_Num_transfer_blocks,
            Num_reserved_blocks, Num_spilled_blocks, Num_free_empty,
            Num_write_accesses, Content, Buffer, stack_top, sc_exc, sc_call,
            mem_op>>

mcVars == <<mc_kind, mc_Num_blocks, mc_Phase, mc_Num_transfer_blocks,
            Num_transfer_bytes, Methods, Num_active_methods, Num_active_blocks,
            active_method, mc_exc, mc_call>>

coreVars == <<BASE, PC, nPC, Cycle, running, Pipeline, rfb, rfo, core_exc, cyc>>

memVars == <<Num_bytes_per_burst, Num_ticks_per_burst, Num_read_delay_ticks,
             Num_posted_writes, mem_Content, Requests, mem_exc, mem_call,
             issued>>

vars == <<scVars, mcVars, coreVars, memVars, dp>>

(***************************************************************************)
(* Helpers.                                                                *)
(***************************************************************************)
Min(a, b) == IF a <= b THEN a ELSE b
Max(a, b) == IF a >= b THEN a ELSE b

\* std::ceil((float)size / (float)bytes)
CeilDiv(size, bytes) == (size + bytes - 1) \div bytes

\* n value-initialised bytes, as appended by std::vector::resize
Zeros(n) == [i \in 1..n |-> 0]

NoMemOp == [kind |-> "none", addr |-> 0, size |-> 0]
MemOp(k, a, s) == [kind |-> k, addr |-> a, size |-> s]

\* the record of a call: the operation, its size argument in bytes, what it
\* returned, and the state the call found when it was issued in phase IDLE
Call(op, size, ret, r0, s0, top0, fe0) ==
  [op |-> op, size |-> size, ret |-> ret, r0 |-> r0, s0 |-> s0, top0 |-> top0,
   fe0 |-> fe0, addr |-> 0, val |-> <<>>]

NoCall == Call("none", 0, "true", 0, 0, 0, 0)

\* a call issued in phase IDLE
NewCall(op, size, ret) ==
  Call(op, size, ret, Num_reserved_blocks, Num_spilled_blocks, stack_top,
       Num_free_empty)

(***************************************************************************)
(* block_stack_cache_t                                                     *)
(***************************************************************************)
\* reserve, free, ensure: "size_blocks > Num_blocks"
ExceedsCache(size_blocks) == size_blocks > sc_Num_blocks

\* reserve: "Num_transfer_blocks + Num_spilled_blocks > Num_blocks_total"
ExceedsTotal(transfer) == transfer + Num_spilled_blocks > sc_Num_blocks_total

\* free, ensure: "size_blocks > Num_spilled_blocks + Num_reserved_blocks"
ExceedsStack(size_blocks) == size_blocks > Num_spilled_blocks + Num_reserved_blocks

\* a spill that leaves one block too many in the cache
SpillBlocks_OneLess(reserved) == reserved - sc_Num_blocks - 1

\* reserve: the blocks to spill, Num_reserved_blocks - Num_blocks
SpillBlocks(reserved) == reserved - sc_Num_blocks

\* a fill of all the blocks asked for, not only of the missing ones
FillBlocks_All(size_blocks) == size_blocks

\* ensure: the blocks to fill, size_blocks - Num_reserved_blocks
FillBlocks(size_blocks) == size_blocks - Num_reserved_blocks

\* a free that takes all its blocks from main memory
freed_spilled_blocks_All(size_blocks) == size_blocks

\* free: the blocks freed in main memory, size_blocks - Num_reserved_blocks
freed_spilled_blocks(size_blocks) == size_blocks - Num_reserved_blocks

\* a stack top lowered by blocks instead of bytes
SpilledTop_Blocks(top, transfer) == top - transfer

\* reserve: the stack top after a spill,
\* "stack_top -= Num_transfer_blocks * NUM_BLOCK_BYTES"
SpilledTop(top, transfer) == top - transfer * NUM_STACK_CACHE_BLOCK_BYTES

\* reserve: the bytes copied to Buffer, starting at
\* Content.size() - Num_reserved_blocks * NUM_BLOCK_BYTES
SpillBuffer(content, reserved, transfer) ==
  LET idx == Len(content) - reserved * NUM_STACK_CACHE_BLOCK_BYTES
  IN  [i \in 1..(transfer * NUM_STACK_CACHE_BLOCK_BYTES) |-> content[idx + i]]

\* the simulation ends with an exception
Raise(kind, call) ==
  /\ sc_exc' = kind
  /\ sc_call' = call

\* case SPILL of reserve: write the buffer to memory; reserved and transfer
\* are the values the case finds in Num_reserved_blocks, Num_transfer_blocks,
\* top the value of the reference stack_top
SpillPhase(reserved, transfer, call, top, ready) ==
  /\ top >= transfer * NUM_STACK_CACHE_BLOCK_BYTES
  /\ mem_op' = MemOp("write", top, transfer * NUM_STACK_CACHE_BLOCK_BYTES)
  /\ IF ready
     THEN /\ Num_reserved_blocks' = reserved - transfer
          /\ Num_spilled_blocks' = Num_spilled_blocks + transfer
          /\ stack_top' = SpilledTop(top, transfer)
          /\ sc_Num_transfer_blocks' = 0
          /\ sc_Phase' = "IDLE"
          /\ sc_call' = [call EXCEPT !.ret = "true"]
     ELSE /\ Num_reserved_blocks' = reserved
          /\ sc_Num_transfer_blocks' = transfer
          /\ sc_Phase' = "SPILL"
          /\ sc_call' = [call EXCEPT !.ret = "false"]
          /\ stack_top' = top
          /\ UNCHANGED Num_spilled_blocks

\* block_stack_cache_t::reserve(size, stack_top) with the value top in the
\* variable the reference stack_top names; ready is what Memory.write answers
\* when the call reaches it
reserve_top(size, top, ready) ==
  LET size_blocks == CeilDiv(size, NUM_STACK_CACHE_BLOCK_BYTES)
      reserved == Num_reserved_blocks + size_blocks
      content == Content \o Zeros(size_blocks * NUM_STACK_CACHE_BLOCK_BYTES)
      transfer == SpillBlocks(reserved)
  IN
  /\ sc_exc = "none"
  /\ \/ /\ sc_Phase = "IDLE"
        /\ ExceedsCache(size_blocks)
        /\ Raise("STACK_EXCEEDED", NewCall("reserve", size, "exc"))
        /\ mem_op' = NoMemOp
        /\ stack_top' = top
        /\ UNCHANGED <<sc_Phase, sc_Num_transfer_blocks, Num_reserved_blocks,
                       Num_spilled_blocks, Content, Buffer>>
     \/ /\ sc_Phase = "IDLE"
        /\ ~ExceedsCache(size_blocks)
        /\ reserved <= sc_Num_blocks
        /\ Num_reserved_blocks' = reserved
        /\ Content' = content
        /\ sc_call' = NewCall("reserve", size, "true")
        /\ mem_op' = NoMemOp
        /\ stack_top' = top
        /\ UNCHANGED <<sc_Phase, sc_Num_transfer_blocks, Num_spilled_blocks,
                       Buffer, sc_exc>>
     \/ /\ sc_Phase = "IDLE"
        /\ ~ExceedsCache(size_blocks)
        /\ reserved > sc_Num_blocks
        /\ ExceedsTotal(transfer)
        /\ Num_reserved_blocks' = reserved
        /\ Content' = content
        /\ sc_Num_transfer_blocks' = transfer
        /\ Raise("STACK_EXCEEDED", NewCall("reserve", size, "exc"))
        /\ mem_op' = NoMemOp
        /\ stack_top' = top
        /\ UNCHANGED <<sc_Phase, Num_spilled_blocks, Buffer>>
     \/ /\ sc_Phase = "IDLE"
        /\ ~ExceedsCache(size_blocks)
        /\ reserved > sc_Num_blocks
        /\ ~ExceedsTotal(transfer)
        /\ Content' = content
        /\ Buffer' = SpillBuffer(content, reserved, transfer)
        /\ SpillPhase(reserved, transfer, NewCall("reserve", size, "false"),
                      top, ready)
        /\ UNCHANGED sc_exc
     \/ /\ sc_Phase = "SPILL"
        /\ sc_call.op = "reserve" /\ sc_call.size = size
        /\ SpillPhase(Num_reserved_blocks, sc_Num_transfer_blocks, sc_call,
                      top, ready)
        /\ UNCHANGED <<Content, Buffer, sc_exc>>
  /\ UNCHANGED <<sc_Num_blocks, sc_Num_blocks_total, Num_free_empty,
                 Num_write_accesses, mcVars, coreVars, memVars>>

\* block_stack_cache_t::reserve(size, stack_top) on the stack top itself
reserve(size, ready) == reserve_top(size, stack_top, ready)

\* block_stack_cache_t::free(size, stack_top) with the value top in the
\* variable the reference stack_top names
free_top(size, top) ==
  LET size_blocks == CeilDiv(size, NUM_STACK_CACHE_BLOCK_BYTES)
  IN
  /\ sc_exc = "none"
  /\ sc_Phase = "IDLE" /\ sc_Num_transfer_blocks = 0
  /\ mem_op' = NoMemOp
  /\ \/ /\ ExceedsCache(size_blocks) \/ ExceedsStack(size_blocks)
        /\ Raise("STACK_EXCEEDED", NewCall("free", size, "exc"))
        /\ stack_top' = top
        /\ UNCHANGED <<Num_reserved_blocks, Num_spilled_blocks, Num_free_empty,
                       Content>>
     \/ /\ ~ExceedsCache(size_blocks) /\ ~ExceedsStack(size_blocks)
        /\ size_blocks <= Num_reserved_blocks
        /\ Content' = SubSeq(Content, 1,
                        Len(Content) - size_blocks * NUM_STACK_CACHE_BLOCK_BYTES)
        /\ Num_reserved_blocks' = Num_reserved_blocks - size_blocks
        /\ sc_call' = NewCall("free", size, "true")
        /\ stack_top' = top
        /\ UNCHANGED <<Num_spilled_blocks, Num_free_empty, sc_exc>>
     \/ /\ ~ExceedsCache(size_blocks) /\ ~ExceedsStack(size_blocks)
        /\ size_blocks > Num_reserved_blocks
        /\ Num_free_empty < MaxFreeEmpty
        /\ Content' = SubSeq(Content, 1,
                        Len(Content) - size_blocks * NUM_STACK_CACHE_BLOCK_BYTES)
        /\ Num_spilled_blocks' =
             Num_spilled_blocks - freed_spilled_blocks(size_blocks)
        /\ Num_reserved_blocks' = 0
        /\ stack_top' = top + freed_spilled_blocks(size_blocks) *
                                NUM_STACK_CACHE_BLOCK_BYTES
        /\ Num_free_empty' = Num_free_empty + 1
        /\ sc_call' = NewCall("free", size, "true")
        /\ UNCHANGED sc_exc
  /\ UNCHANGED <<sc_Num_blocks, sc_Num_blocks_total, sc_Phase,
                 sc_Num_transfer_blocks, Buffer, Num_write_accesses, mcVars, coreVars, memVars>>

\* block_stack_cache_t::free(size, stack_top) on the stack top itself
free(size) == free_top(size, stack_top)

\* case FILL of ensure: read the missing blocks from memory; top is the value
\* of the reference stack_top
FillPhase(transfer, call, top, ready) ==
  /\ mem_op' = MemOp("read", top - transfer * NUM_STACK_CACHE_BLOCK_BYTES,
                     transfer * NUM_STACK_CACHE_BLOCK_BYTES)
  /\ IF ready
     THEN /\ Num_spilled_blocks' = Num_spilled_blocks - transfer
          /\ Num_reserved_blocks' = Num_reserved_blocks + transfer
          /\ sc_Phase' = "IDLE"
          /\ sc_Num_transfer_blocks' = 0
          /\ sc_call' = [call EXCEPT !.ret = "true"]
     ELSE /\ sc_Num_transfer_blocks' = transfer
          /\ sc_Phase' = "FILL"
          /\ sc_call' = [call EXCEPT !.ret = "false"]
          /\ UNCHANGED <<Num_spilled_blocks, Num_reserved_blocks>>

\* block_stack_cache_t::ensure(size, stack_top) with the value top in the
\* variable the reference stack_top names; ready is what Memory.read answers
\* when the call reaches it
ensure_top(size, top, ready) ==
  LET size_blocks == CeilDiv(size, NUM_STACK_CACHE_BLOCK_BYTES)
  IN
  /\ sc_exc = "none"
  /\ \/ /\ sc_Phase = "IDLE"
        /\ ExceedsCache(size_blocks) \/ ExceedsStack(size_blocks)
        /\ Raise("STACK_EXCEEDED", NewCall("ensure", size, "exc"))
        /\ mem_op' = NoMemOp
        /\ UNCHANGED <<sc_Phase, sc_Num_transfer_blocks, Num_reserved_blocks,
                       Num_spilled_blocks>>
     \/ /\ sc_Phase = "IDLE"
        /\ ~ExceedsCache(size_blocks) /\ ~ExceedsStack(size_blocks)
        /\ Num_reserved_blocks >= size_blocks
        /\ sc_call' = NewCall("ensure", size, "true")
        /\ mem_op' = NoMemOp
        /\ UNCHANGED <<sc_Phase, sc_Num_transfer_blocks, Num_reserved_blocks,
                       Num_spilled_blocks, sc_exc>>
     \/ /\ sc_Phase = "IDLE"
        /\ ~ExceedsCache(size_blocks) /\ ~ExceedsStack(size_blocks)
        /\ Num_reserved_blocks < size_blocks
        /\ FillPhase(FillBlocks(size_blocks), NewCall("ensure", size, "false"),
                     top, ready)
        /\ UNCHANGED sc_exc
     \/ /\ sc_Phase = "FILL"
        /\ sc_call.op = "ensure" /\ sc_call.size = size
        /\ FillPhase(sc_Num_transfer_blocks, sc_call, top, ready)
        /\ UNCHANGED sc_exc
  /\ stack_top' = top
  /\ UNCHANGED <<sc_Num_blocks, sc_Num_blocks_total, Num_free_empty, Content,
                 Buffer, Num_write_accesses, mcVars, coreVars, memVars>>

\* block_stack_cache_t::ensure(size, stack_top) on the stack top itself
ensure(size, ready) == ensure_top(size, stack_top, ready)

\* ideal_stack_cache_t::read/write: "Content.size() < address + size"
ExceedsContent(address, size) == Len(Content) < address + size

\* block_stack_cache_t::read(address, value, size): the bytes
\* Content[Content.size() - address - size + i], i < size; the phase is not
\* looked at
read(address, size) ==
  /\ sc_exc = "none"
  /\ mem_op' = NoMemOp
  /\ IF ExceedsContent(address, size)
     THEN Raise("STACK_EXCEEDED",
                [NewCall("read", size, "exc") EXCEPT !.addr = address])
     ELSE /\ sc_call' = [NewCall("read", size, "true") EXCEPT
                           !.addr = address,
                           !.val = [i \in 1..size |->
                                      Content[Len(Content) - address - size + i]]]
          /\ UNCHANGED sc_exc
  /\ UNCHANGED <<sc_Num_blocks, sc_Num_blocks_total, sc_Phase,
                 sc_Num_transfer_blocks, Num_reserved_blocks, Num_spilled_blocks,
                 Num_free_empty, Content, Buffer, stack_top,
                 Num_write_accesses, mcVars, coreVars, memVars>>

\* block_stack_cache_t::write(address, value, size); the phase is not
\* looked at
write(address, value, size) ==
  /\ sc_exc = "none"
  /\ Num_write_accesses < MaxWrites
  /\ mem_op' = NoMemOp
  /\ IF ExceedsContent(address, size)
     THEN /\ Raise("STACK_EXCEEDED",
                   [NewCall("write", size, "exc") EXCEPT !.addr = address])
          /\ UNCHANGED <<Content, Num_write_accesses>>
     ELSE /\ Num_write_accesses' = Num_write_accesses + 1
          /\ Content' = [i \in 1..Len(Content) |->
                           LET k == i - (Len(Content) - address - size)
                           IN  IF k >= 1 /\ k <= size THEN value[k] ELSE Content[i]]
          /\ sc_call' = [NewCall("write", size, "true") EXCEPT
                           !.addr = address, !.val = value]
          /\ UNCHANGED sc_exc
  /\ UNCHANGED <<sc_Num_blocks, sc_Num_blocks_total, sc_Phase,
                 sc_Num_transfer_blocks, Num_reserved_blocks, Num_spilled_blocks,
                 Num_free_empty, Buffer, stack_top, mcVars, coreVars, memVars>>

(***************************************************************************)
(* The program image: the methods main memory holds.  A method is known by *)
(* its base address; the word at base - 4 holds its size in bytes.         *)
(***************************************************************************)
\* the distance of the base addresses of two methods: eight cache blocks
MethodStride == 8 * NUM_METHOD_CACHE_BLOCK_BYTES

\* the methods of the image: the entry method, a three-block method, an empty
\* method, a method larger than every cache, and one-block methods
NumMethods == 4 + MaxMethodCacheBlocks

MethodAddrs == {MethodStride * k : k \in 1..NumMethods}

\* the base address the loader passes to run()
EntryAddr == MethodStride

\* the size word of a method: what Memory.read(address - 4, ..., 4) yields
SizeWord(address) ==
  LET k == address \div MethodStride
  IN  CASE k = 1 -> 40
        [] k = 2 -> 96
        [] k = 3 -> 0
        [] k = 4 -> NUM_METHOD_CACHE_BLOCK_BYTES * MaxMethodCacheBlocks + 4
        [] OTHER -> 28

(***************************************************************************)
(* lru_method_cache_t and fifo_method_cache_t                              *)
(***************************************************************************)
\* the bytes a buffer Instructions points to: the first `bytes` bytes of the
\* method at `from`; every entry owns one buffer, so the model keeps the
\* content of the buffer in the place of the pointer
Code(from, bytes) == [from |-> from, bytes |-> bytes]

\* a buffer as new byte_t[] leaves it
NoCode == Code(0, 0)

\* method_info_t::method_info_t and method_info_t::update
method_info_t(instructions, address, num_blocks, num_bytes) ==
  [Instructions |-> instructions, Address |-> address,
   Num_blocks |-> num_blocks, Num_bytes |-> num_bytes]

\* the indices the loops of lookup and assert_availability are meant to visit
ActiveEntries(active) ==
  {i \in 0..(mc_Num_blocks - 1) : i >= mc_Num_blocks - active}

\* the index of the first active entry, counting down from Num_blocks - 1,
\* whose Address is the address looked for; -1 if there is none
MatchIndex(methods, active, address) ==
  LET m == {i \in ActiveEntries(active) : methods[i].Address = address}
  IN  IF m = {} THEN -1 ELSE CHOOSE i \in m : \A j \in m : j <= i

\* the index the loop of fifo_method_cache_t::is_available assigns last
LastMatchIndex(methods, active, address) ==
  LET m == {i \in ActiveEntries(active) : methods[i].Address = address}
  IN  IF m = {} THEN -1 ELSE CHOOSE i \in m : \A j \in m : i <= j

\* "i >= Num_blocks - Num_active_methods" on unsigned int: when all Num_blocks
\* entries are active the bound is 0, the condition never fails, i-- wraps
\* around, and the loop reads Methods[i] outside the array
ScanLeavesArray(active) == mc_Num_blocks - active <= 0

\* the outcomes of the read outside the array: the process is killed, or a
\* stray word equal to the address makes the loop return a match
WildOutcomes == {"SIGSEGV", "STRAY"}

\* lru_method_cache_t::lookup on a match at index i: the entries above i move
\* down by one, the matching entry goes to Num_blocks - 1
Promote(methods, i) ==
  [j \in DOMAIN methods |->
     IF j < i THEN methods[j]
     ELSE IF j < mc_Num_blocks - 1 THEN methods[j + 1] ELSE methods[i]]

\* is_available: "Num_transfer_blocks == 0 || Num_transfer_blocks > Num_blocks"
CodeExceeded(transfer_blocks) ==
  transfer_blocks = 0 \/ transfer_blocks > mc_Num_blocks

RECURSIVE Evict(_, _, _, _)
\* is_available: "while (Num_active_blocks + Num_transfer_blocks > Num_blocks)"
Evict(methods, active, blocks, transfer_blocks) ==
  IF blocks + transfer_blocks > mc_Num_blocks
  THEN Evict(methods, active - 1,
             blocks - methods[mc_Num_blocks - active].Num_blocks,
             transfer_blocks)
  ELSE [active |-> active, blocks |-> blocks]

\* is_available: "shift the remaining blocks" and "insert the new entry at the
\* head of the table"; active counts the new entry
Insert(methods, active, address, transfer_blocks, transfer_bytes) ==
  LET saved_instructions == methods[mc_Num_blocks - active].Instructions
  IN  [j \in DOMAIN methods |->
         IF j = mc_Num_blocks - 1
         THEN method_info_t(saved_instructions, address, transfer_blocks,
                            transfer_bytes)
         ELSE IF j >= mc_Num_blocks - active THEN methods[j + 1]
         ELSE methods[j]]

\* the state of the cache a call of is_available works on, and what it returns
CacheState(ret, phase, tblocks, tbytes, methods, active, blocks) ==
  [ret |-> ret, Phase |-> phase, Num_transfer_blocks |-> tblocks,
   Num_transfer_bytes |-> tbytes, Methods |-> methods,
   Num_active_methods |-> active, Num_active_blocks |-> blocks]

\* is_available, case TRANSFER
TransferCase(c, address, transfer_ready) ==
  IF transfer_ready
  THEN [c EXCEPT !.ret = "true", !.Phase = "IDLE",
                 !.Num_transfer_blocks = 0, !.Num_transfer_bytes = 0,
                 !.Methods[mc_Num_blocks - 1].Instructions =
                    Code(address,
                         c.Num_transfer_blocks * NUM_METHOD_CACHE_BLOCK_BYTES)]
  ELSE [c EXCEPT !.ret = "false"]

\* a case SIZE that returns once the size word is read, without falling
\* through to case TRANSFER
SizeCase_Returns(c, address, size_ready, transfer_ready) ==
  IF ~size_ready
  THEN [c EXCEPT !.ret = "false", !.Phase = "SIZE"]
  ELSE LET tbytes == SizeWord(address)
           tblocks == CeilDiv(tbytes, NUM_METHOD_CACHE_BLOCK_BYTES)
       IN  IF CodeExceeded(tblocks)
           THEN [c EXCEPT !.ret = "CODE_EXCEEDED", !.Phase = "SIZE",
                          !.Num_transfer_blocks = tblocks,
                          !.Num_transfer_bytes = tbytes]
           ELSE LET e == Evict(c.Methods, c.Num_active_methods,
                               c.Num_active_blocks, tblocks)
                    d == [c EXCEPT
                            !.Phase = "TRANSFER",
                            !.Num_transfer_blocks = tblocks,
                            !.Num_transfer_bytes = tbytes,
                            !.Num_active_methods = e.active + 1,
                            !.Num_active_blocks = e.blocks + tblocks,
                            !.Methods = Insert(c.Methods, e.active + 1, address,
                                               tblocks, tbytes)]
                IN  [d EXCEPT !.ret = "false"]

\* is_available, case SIZE, falling through to case TRANSFER
SizeCase(c, address, size_ready, transfer_ready) ==
  IF ~size_ready
  THEN [c EXCEPT !.ret = "false", !.Phase = "SIZE"]
  ELSE LET tbytes == SizeWord(address)
           tblocks == CeilDiv(tbytes, NUM_METHOD_CACHE_BLOCK_BYTES)
       IN  IF CodeExceeded(tblocks)
           THEN [c EXCEPT !.ret = "CODE_EXCEEDED", !.Phase = "SIZE",
                          !.Num_transfer_blocks = tblocks,
                          !.Num_transfer_bytes = tbytes]
           ELSE LET e == Evict(c.Methods, c.Num_active_methods,
                               c.Num_active_blocks, tblocks)
                    d == [c EXCEPT
                            !.Phase = "TRANSFER",
                            !.Num_transfer_blocks = tblocks,
                            !.Num_transfer_bytes = tbytes,
                            !.Num_active_methods = e.active + 1,
                            !.Num_active_blocks = e.blocks + tblocks,
                            !.Methods = Insert(c.Methods, e.active + 1, address,
                                               tblocks, tbytes)]
                IN  TransferCase(d, address, transfer_ready)

\* lru_method_cache_t::lookup and fifo_method_cache_t::lookup (which is
\* assert_availability): what the call returns, and the entries it leaves
lookup(methods, active, address, wild) ==
  LET i == MatchIndex(methods, active, address)
  IN  IF i >= 0
      THEN [ret |-> "true",
            Methods |-> IF mc_kind = "lru" THEN Promote(methods, i) ELSE methods]
      ELSE IF ScanLeavesArray(active)
      THEN IF wild = "STRAY" /\ mc_kind = "lru"
           THEN [ret |-> "STRAY",
                 Methods |-> [methods EXCEPT ![mc_Num_blocks - 1] =
                                method_info_t(NoCode, address, 0, 0)]]
           ELSE [ret |-> wild, Methods |-> methods]
      ELSE [ret |-> "false", Methods |-> methods]

\* lru_method_cache_t::is_available
base_is_available(c, address, size_ready, transfer_ready, wild) ==
  CASE c.Phase = "IDLE" ->
         LET l == lookup(c.Methods, c.Num_active_methods, address, wild)
         IN  IF l.ret = "false"
             THEN SizeCase(c, address, size_ready, transfer_ready)
             ELSE [c EXCEPT !.ret = l.ret, !.Methods = l.Methods]
    [] c.Phase = "SIZE" -> SizeCase(c, address, size_ready, transfer_ready)
    [] c.Phase = "TRANSFER" -> TransferCase(c, address, transfer_ready)

\* fifo_method_cache_t::is_available: the loop that updates active_method
\* once the method is available; it has no exit but its bound
update_active_method(c, address) ==
  IF mc_kind = "fifo" /\ c.ret = "true"
  THEN IF ScanLeavesArray(c.Num_active_methods)
       THEN [ret |-> "SIGSEGV", active_method |-> active_method]
       ELSE [ret |-> "true",
             active_method |->
               LET i == LastMatchIndex(c.Methods, c.Num_active_methods, address)
               IN  IF i >= 0 THEN i ELSE active_method]
  ELSE [ret |-> c.ret, active_method |-> active_method]

\* the method at the address is among the active entries
Resident(methods, active, address) == MatchIndex(methods, active, address) >= 0

\* lru_method_cache_t::assert_availability(address): what the call
\* returns; it assigns nothing
assert_availability(methods, active, address, wild) ==
  IF Resident(methods, active, address) THEN "true"
  ELSE IF ScanLeavesArray(active)
  THEN IF wild = "STRAY" THEN "true" ELSE wild
  ELSE "false"

\* the addresses of the active entries, the oldest entry first
ActiveOrder(methods, active) ==
  [k \in 1..active |-> methods[mc_Num_blocks - active + k - 1].Address]

\* the record of a request: the address, what the last call returned,
\* whether lookup returned false when the request was issued in phase IDLE,
\* whether the last call was the first one made for it, and whether
\* Memory.read had the size word and the instructions ready in the last call
MCCall(address, ret, miss) ==
  [address |-> address, ret |-> ret, miss |-> miss, first |-> TRUE,
   size_ready |-> FALSE, transfer_ready |-> FALSE]

NoMCCall == MCCall(0, "none", FALSE)

\* lru_method_cache_t(memory, num_blocks), fifo_method_cache_t(memory, num_blocks)
lru_method_cache_t(kind, num_blocks) ==
  /\ mc_kind = kind
  /\ mc_Num_blocks = num_blocks
  /\ mc_Phase = "IDLE"
  /\ mc_Num_transfer_blocks = 0
  /\ Num_transfer_bytes = 0
  /\ Methods = [i \in 0..(num_blocks - 1) |-> method_info_t(NoCode, 0, 0, 0)]
  /\ Num_active_methods = 0
  /\ Num_active_blocks = 0
  /\ active_method = num_blocks - 1
  /\ mc_exc = "none"
  /\ mc_call = NoMCCall

\* lru_method_cache_t::initialize(address)
initialize(address) ==
  /\ Num_active_blocks = 0 /\ Num_active_methods = 0
  /\ mc_exc = "none"
  /\ Methods' = [Methods EXCEPT ![mc_Num_blocks - 1] =
                   method_info_t(Code(address, NUM_INIT_BLOCKS *
                                               NUM_METHOD_CACHE_BLOCK_BYTES),
                                 address, NUM_INIT_BLOCKS,
                                 NUM_INIT_BLOCKS * NUM_METHOD_CACHE_BLOCK_BYTES)]
  /\ Num_active_blocks' = NUM_INIT_BLOCKS
  /\ Num_active_methods' = 1
  /\ UNCHANGED <<mc_kind, mc_Num_blocks, mc_Phase, mc_Num_transfer_blocks,
                 Num_transfer_bytes, active_method, mc_exc, mc_call>>

\* Method_cache.is_available(address) of the configured class; size_ready and
\* transfer_ready tell whether Memory.read returns true in this call.  The
\* result: the state of the cache, what the call returns, active_method and
\* the record of the request.
method_cache_is_available(address, size_ready, transfer_ready, wild) ==
  LET c == base_is_available(
             CacheState("none", mc_Phase, mc_Num_transfer_blocks,
                        Num_transfer_bytes, Methods, Num_active_methods,
                        Num_active_blocks),
             address, size_ready, transfer_ready, wild)
      f == update_active_method(c, address)
  IN  [c |-> c, ret |-> f.ret, active_method |-> f.active_method,
       call |-> [(IF mc_Phase = "IDLE"
                  THEN MCCall(address, f.ret,
                              lookup(Methods, Num_active_methods, address,
                                     wild).ret = "false")
                  ELSE [mc_call EXCEPT !.ret = f.ret, !.first = FALSE])
                 EXCEPT !.size_ready = size_ready,
                        !.transfer_ready = transfer_ready]]

\* the state the call r of is_available leaves the method cache in
SetMethodCache(r) ==
  /\ mc_Phase' = r.c.Phase
  /\ mc_Num_transfer_blocks' = r.c.Num_transfer_blocks
  /\ Num_transfer_bytes' = r.c.Num_transfer_bytes
  /\ Methods' = r.c.Methods
  /\ Num_active_methods' = r.c.Num_active_methods
  /\ Num_active_blocks' = r.c.Num_active_blocks
  /\ active_method' = r.active_method
  /\ mc_exc' = IF r.ret \in {"true", "false"} THEN "none" ELSE r.ret
  /\ mc_call' = r.call
  /\ UNCHANGED <<mc_kind, mc_Num_blocks>>

\* a call of is_available; a request that returned false is issued again
\* with the same address
is_available(address, size_ready, transfer_ready, wild) ==
  /\ mc_exc = "none"
  /\ Num_active_methods > 0
  /\ mc_Phase # "IDLE" => mc_call.address = address
  /\ \E r \in {method_cache_is_available(address, size_ready, transfer_ready,
                                        wild)} : SetMethodCache(r)

(***************************************************************************)
(* simulator_t: the pipeline and the cycle loop of run().                  *)
(*                                                                         *)
(* The model follows the first slot of every bundle; the instructions are  *)
(* "nop", "mem" (a load that may stall in MW), "call", "b" and "ret", and  *)
(* every bundle is one word long.  No interrupt is pending.                *)
(***************************************************************************)
SIF == 0
SDR == 1
SEX == 2
SMW == 3
NUM_STAGES == 4

\* instruction_data_t: the instruction, its immediate operand, the values the
\* DR stage read, the flag of fetch_and_dispatch/dispatch and the fetch address
instruction_data_t(op, imm, address) ==
  [op |-> op, Imm |-> imm, DR_Pred |-> FALSE, DR_Base |-> 0, DR_Offset |-> 0,
   EX_PFL_Discard |-> FALSE, Address |-> address]

\* instruction_data_t(): a bubble
Bubble == instruction_data_t("bubble", 0, 0)

\* the method the chain of one-block methods calls next
NextMethod(k) ==
  IF k < NumMethods THEN MethodStride * (k + 1) ELSE EntryAddr

\* the program: the word at an address, decoded.  The entry method calls the
\* three-block method and the first one-block method and returns; the
\* three-block method loads, branches forward over a load and returns; every one-block
\* method calls the next one and returns, the last one calls the entry method.
Decode(address) ==
  LET k == address \div MethodStride
      w == (address % MethodStride) \div 4
      i(op, imm) == instruction_data_t(op, imm, 0)
  IN  CASE k = 1 /\ w = 0 -> i("call", (2 * MethodStride) \div 4)
        [] k = 1 /\ w = 3 -> i("call", (5 * MethodStride) \div 4)
        [] k = 1 /\ w = 6 -> i("ret", 0)
        [] k = 2 /\ w = 0 -> i("mem", 0)
        [] k = 2 /\ w = 1 -> i("b", 4)
        [] k = 2 /\ w = 4 -> i("mem", 0)
        [] k = 2 /\ w = 5 -> i("ret", 0)
        [] k >= 5 /\ k <= NumMethods /\ w = 0 -> i("call", NextMethod(k) \div 4)
        [] k >= 5 /\ k <= NumMethods /\ w = 3 -> i("ret", 0)
        [] OTHER -> i("nop", 0)

\* the entry fetch reads from: lru_method_cache_t::fetch takes the most
\* recently used entry, fifo_method_cache_t::fetch the entry active_method
ActiveMethod(methods, am) ==
  IF mc_kind = "lru" THEN methods[mc_Num_blocks - 1] ELSE methods[am]

\* a fetch that accepts every address
IllegalPC_Never(current_method, address) == FALSE

\* do_fetch: "address < current_method.Address ||
\*            current_method.Address + current_method.Num_bytes <= address"
IllegalPC(current_method, address) ==
  \/ address < current_method.Address
  \/ current_method.Address + current_method.Num_bytes <= address

\* do_fetch and Decoder.decode: the word of the buffer of the method at the
\* offset of the address
Fetch(current_method, address) ==
  [Decode(current_method.Instructions.from +
          (address - current_method.Address)) EXCEPT !.Address = address]

\* pipeline_stall(pst), on the value of Stall
pipeline_stall(stall, pst) == Max(stall, pst)

\* the MW stage: i_ldt_t::MW stalls until the load is available; MW of the
\* other instructions is inherited from i_nop_t
MW(ops, stall, mem_ready) ==
  IF ops.op = "mem" /\ ops.DR_Pred /\ ~mem_ready
  THEN pipeline_stall(stall, SMW)
  ELSE stall

\* what the EX stage of a control-flow instruction asks for: nothing, a halt
\* (i_ret_t::EX with DR_Base == 0), fetch_and_dispatch(base, address) or
\* dispatch(base, address); if_pc is the value of ops.IF_PC, which no stage
\* invoked by run() assigns
PFLRequest(ops, if_pc) ==
  LET req(kind, base, address) ==
        [kind |-> kind, base |-> base, address |-> address]
  IN  CASE ops.op = "ret" /\ ops.DR_Pred /\ ops.DR_Base = 0 -> req("halt", 0, 0)
        [] ops.op = "ret" /\ ops.DR_Pred /\ ~ops.EX_PFL_Discard ->
             req("fetch_and_dispatch", ops.DR_Base, ops.DR_Base + ops.DR_Offset)
        [] ops.op = "call" /\ ops.DR_Pred /\ ~ops.EX_PFL_Discard ->
             req("fetch_and_dispatch", ops.Imm * 4, ops.Imm * 4)
        [] ops.op = "b" /\ ops.DR_Pred /\ ~ops.EX_PFL_Discard ->
             req("dispatch", BASE, if_pc + ops.Imm * 4)
        [] OTHER -> req("none", 0, 0)

\* the state of the simulator the stages of a cycle work on
CoreState(stall, base, pc, npc, b, o, ops, exc) ==
  [Stall |-> stall, BASE |-> base, PC |-> pc, nPC |-> npc, rfb |-> b,
   rfo |-> o, ops |-> ops, exc |-> exc]

\* an EX stage that does not mark the instruction it has dispatched
EX_NotMarked(ops, stall, if_pc, wild, r) ==
  LET q == PFLRequest(ops, if_pc)
      \* store_return_address(s, ops, pred, s.BASE, s.nPC)
      b == IF ops.op = "call" /\ q.kind # "none" THEN BASE ELSE rfb
      o == IF ops.op = "call" /\ q.kind # "none" THEN nPC - BASE ELSE rfo
      done == ops
  IN  CASE q.kind = "halt" ->
             CoreState(pipeline_stall(stall, SDR), BASE, PC, nPC, b, o, ops,
                       "none")
        [] q.kind = "fetch_and_dispatch" ->
             IF r.ret = "true"
             THEN CoreState(stall, q.base, q.address, q.address, b, o, done,
                            "none")
             ELSE IF r.ret = "false"
             THEN CoreState(pipeline_stall(stall, SEX), BASE, PC, nPC, b, o,
                            ops, "none")
             ELSE CoreState(stall, BASE, PC, nPC, b, o, ops, r.ret)
        [] q.kind = "dispatch" ->
             \* assert(s.Method_cache.assert_availability(base))
             IF Resident(Methods, Num_active_methods, q.base)
             THEN CoreState(stall, q.base, q.address, q.address, b, o, done,
                            "none")
             ELSE IF ScanLeavesArray(Num_active_methods)
             THEN CoreState(stall, BASE, PC, nPC, b, o, ops, wild)
             ELSE CoreState(stall, BASE, PC, nPC, b, o, ops, "ABORT")
        [] OTHER -> CoreState(stall, BASE, PC, nPC, b, o, ops, "none")

\* the EX stage of the instruction ops, given the result r of the call of
\* is_available it makes if it asks for fetch_and_dispatch
EX(ops, stall, if_pc, wild, r) ==
  LET q == PFLRequest(ops, if_pc)
      \* store_return_address(s, ops, pred, s.BASE, s.nPC)
      b == IF ops.op = "call" /\ q.kind # "none" THEN BASE ELSE rfb
      o == IF ops.op = "call" /\ q.kind # "none" THEN nPC - BASE ELSE rfo
      done == [ops EXCEPT !.EX_PFL_Discard = TRUE]
  IN  CASE q.kind = "halt" ->
             CoreState(pipeline_stall(stall, SDR), BASE, PC, nPC, b, o, ops,
                       "none")
        [] q.kind = "fetch_and_dispatch" ->
             IF r.ret = "true"
             THEN CoreState(stall, q.base, q.address, q.address, b, o, done,
                            "none")
             ELSE IF r.ret = "false"
             THEN CoreState(pipeline_stall(stall, SEX), BASE, PC, nPC, b, o,
                            ops, "none")
             ELSE CoreState(stall, BASE, PC, nPC, b, o, ops, r.ret)
        [] q.kind = "dispatch" ->
             \* assert(s.Method_cache.assert_availability(base))
             IF Resident(Methods, Num_active_methods, q.base)
             THEN CoreState(stall, q.base, q.address, q.address, b, o, done,
                            "none")
             ELSE IF ScanLeavesArray(Num_active_methods)
             THEN CoreState(stall, BASE, PC, nPC, b, o, ops, wild)
             ELSE CoreState(stall, BASE, PC, nPC, b, o, ops, "ABORT")
        [] OTHER -> CoreState(stall, BASE, PC, nPC, b, o, ops, "none")

\* the DR stage: the control-flow instructions read their predicate (pred is
\* the value of the predicate register) and reset EX_PFL_Discard, i_ret_t
\* reads the registers Rb and Ro; the load is predicated by p0
DR(ops, pred, b, o) ==
  CASE ops.op \in {"call", "b"} ->
         [ops EXCEPT !.DR_Pred = pred, !.EX_PFL_Discard = FALSE]
    [] ops.op = "ret" ->
         [ops EXCEPT !.DR_Pred = pred, !.EX_PFL_Discard = FALSE,
                     !.DR_Base = b, !.DR_Offset = o]
    [] ops.op = "mem" -> [ops EXCEPT !.DR_Pred = TRUE]
    [] OTHER -> ops

\* run(): "move pipeline stages" and "insert bubbles after stalling stage",
\* on the stages as the hooks left them
MoveStages(pipeline, stall) ==
  LET moved == [i \in DOMAIN pipeline |->
                  IF i >= 1 /\ i - 1 >= stall /\ i - 1 <= SEX
                  THEN pipeline[i - 1] ELSE pipeline[i]]
  IN  IF stall > SIF /\ stall # NUM_STAGES - 1
      THEN [moved EXCEPT ![stall + 1] = Bubble]
      ELSE moved

\* the cycle last simulated: the stage that stalled, whether a bundle was
\* fetched, what is_available returned to fetch_and_dispatch, and BASE, PC
\* and nPC as the EX stage left them
CycleRecord(stall, fetched, available, x) ==
  [Stall |-> stall, fetched |-> fetched, available |-> available,
   EX |-> [BASE |-> x.BASE, PC |-> x.PC, nPC |-> x.nPC]]

\* simulator_t::simulator_t(...)
simulator_t ==
  /\ BASE = 0 /\ PC = 0 /\ nPC = 0
  /\ Cycle = 0
  /\ running = FALSE
  /\ Pipeline = [i \in SIF..SMW |-> Bubble]
  /\ rfb = 0 /\ rfo = 0
  /\ core_exc = "none"
  /\ cyc = CycleRecord(SIF, FALSE, "none", CoreState(SIF, 0, 0, 0, 0, 0, Bubble, "none"))

\* run(entry, ...): "do some initializations before executing the first
\* instruction"
run_initialize(entry) ==
  /\ ~running /\ Cycle = 0
  /\ BASE' = entry /\ nPC' = entry
  /\ initialize(entry)
  /\ running' = TRUE
  /\ UNCHANGED <<PC, Cycle, Pipeline, rfb, rfo, core_exc, cyc>>

\* run(): one iteration of the main simulation loop
run_cycle(size_ready, transfer_ready, wild, mem_ready, pred, if_pc) ==
  /\ running /\ core_exc = "none"
  /\ \E q \in {PFLRequest(Pipeline[SEX], if_pc)} :
     \E r \in {IF q.kind = "fetch_and_dispatch"
               THEN method_cache_is_available(q.base, size_ready,
                                              transfer_ready, wild)
               ELSE [ret |-> "none"]} :
     \E x \in {EX(Pipeline[SEX], MW(Pipeline[SMW], SIF, mem_ready), if_pc,
                 wild, r)} :
       /\ IF q.kind = "fetch_and_dispatch"
          THEN SetMethodCache(r)
          ELSE UNCHANGED mcVars
       /\ rfb' = x.rfb /\ rfo' = x.rfo
       /\ IF x.exc # "none"
          THEN \* the exception leaves the loop in the EX stage
               /\ core_exc' = x.exc
               /\ UNCHANGED <<BASE, PC, nPC, Cycle, running, Pipeline, cyc>>
          ELSE \E moved \in {MoveStages(
                               [Pipeline EXCEPT
                                  ![SEX] = x.ops,
                                  ![SDR] = DR(Pipeline[SDR], pred, x.rfb, x.rfo)],
                               x.Stall)} :
               \E current_method \in
                    {IF q.kind = "fetch_and_dispatch"
                     THEN ActiveMethod(r.c.Methods, r.active_method)
                     ELSE ActiveMethod(Methods, active_method)} :
                 /\ BASE' = x.BASE
                 /\ PC' = x.nPC
                 /\ running' = running
                 /\ IF x.Stall # SIF
                    THEN /\ nPC' = x.nPC
                         /\ Pipeline' = moved
                         /\ core_exc' = "none"
                         /\ Cycle' = 1
                         /\ cyc' = CycleRecord(x.Stall, FALSE, r.ret, x)
                    ELSE IF IllegalPC(current_method, x.nPC)
                    THEN \* Method_cache.fetch raises illegal_pc
                         /\ nPC' = x.nPC
                         /\ Pipeline' = moved
                         /\ core_exc' = "ILLEGAL_PC"
                         /\ UNCHANGED <<Cycle, cyc>>
                    ELSE /\ nPC' = x.nPC + 4
                         /\ Pipeline' = [moved EXCEPT ![SIF] =
                                           Fetch(current_method, x.nPC)]
                         /\ core_exc' = "none"
                         /\ Cycle' = 1
                         /\ cyc' = CycleRecord(SIF, TRUE, r.ret, x)

(***************************************************************************)
(* fixed_delay_memory_t (src/memory.cc): the queue of requests over the    *)
(* ideal memory.                                                           *)
(***************************************************************************)
\* request_info_t
request_info_t(address, size, is_load, is_posted, num_ticks) ==
  [Address |-> address, Size |-> size, Is_load |-> is_load,
   Is_posted |-> is_posted, Num_ticks_remaining |-> num_ticks]

\* get_aligned_size: the result, and the value left in aligned_address
get_aligned_size(address, size) ==
  LET start == (address \div Num_bytes_per_burst) * Num_bytes_per_burst
      end == (((address + size - 1) \div Num_bytes_per_burst) + 1) *
             Num_bytes_per_burst
  IN  [aligned_address |-> start, aligned_size |-> end - start]

\* a memory that adds the read delay to no request
get_transfer_ticks_NoReadDelay(aligned_address, aligned_size, is_load, is_posted) ==
  Num_ticks_per_burst * (((aligned_size - 1) \div Num_bytes_per_burst) + 1)

\* get_transfer_ticks
get_transfer_ticks(aligned_address, aligned_size, is_load, is_posted) ==
  LET num_blocks == ((aligned_size - 1) \div Num_bytes_per_burst) + 1
      num_ticks == Num_ticks_per_burst * num_blocks
  IN  IF is_load \/ ~is_posted
      THEN num_ticks + Num_read_delay_ticks
      ELSE num_ticks

\* tdm_memory_t::get_transfer_ticks: "We are counting down TDM slots at
\* round end instead of actual ticks."
tdm_get_transfer_ticks(aligned_address, aligned_size, is_load, is_posted) ==
  ((aligned_size - 1) \div Num_bytes_per_burst) + 1

\* check_initialize_content: "(address > Memory_size) ||
\*                            (size > Memory_size - address)"
Unmapped(address, size) ==
  \/ address > MemoryBytes
  \/ size > MemoryBytes - address

\* find_or_create_request: "found matching request?"
MatchingRequests(requests, address, size, is_load) ==
  {i \in 1..Len(requests) : /\ requests[i].Address = address
                            /\ requests[i].Size = size
                            /\ requests[i].Is_load = is_load}

\* the default of the parameter is_posted of find_or_create_request: read()
\* and write() pass five arguments, the fifth is is_fetch
DefaultIsPosted == FALSE

\* find_or_create_request(s, address, size, is_load, is_fetch, is_posted): the
\* queue it leaves, and the index of the request it returns; class is the
\* class of the memory, which selects the virtual get_transfer_ticks
find_or_create_request_in(class, address, size, is_load, is_fetch, is_posted) ==
  LET found == MatchingRequests(Requests, address, size, is_load)
      a == get_aligned_size(address, size)
      num_ticks == IF class = "tdm_memory_t"
                   THEN tdm_get_transfer_ticks(a.aligned_address,
                                               a.aligned_size, is_load,
                                               is_posted)
                   ELSE get_transfer_ticks(a.aligned_address, a.aligned_size,
                                           is_load, is_posted)
  IN  IF found # {}
      THEN [Requests |-> Requests,
            req |-> CHOOSE i \in found : \A j \in found : i <= j,
            created |-> FALSE]
      ELSE [Requests |-> Append(Requests,
                                request_info_t(address, size, is_load,
                                               is_posted, num_ticks)),
            req |-> Len(Requests) + 1,
            created |-> TRUE]

\* find_or_create_request of fixed_delay_memory_t
find_or_create_request(address, size, is_load, is_fetch, is_posted) ==
  find_or_create_request_in("fixed_delay_memory_t", address, size, is_load,
                            is_fetch, is_posted)

\* the record of an access: the call, what it returned, whether the posted
\* branch of write() answered it, and the bytes a read returned
MemCall(op, address, size, value, ret, posted, data) ==
  [op |-> op, address |-> address, size |-> size, value |-> value,
   ret |-> ret, posted |-> posted, data |-> data]

NoMemCall == MemCall("none", 0, 0, <<>>, FALSE, FALSE, <<>>)

\* no request is being timed
NoIssue == [active |-> FALSE, done |-> FALSE, address |-> 0, size |-> 0,
            is_load |-> FALSE, ticks |-> 0]

\* the request an access creates in an empty queue is timed from then on,
\* until the call that retires it; the next call forgets it
Issue(f, address, size, is_load, retired) ==
  IF f.created /\ Requests = <<>>
  THEN [active |-> ~retired, done |-> retired, address |-> address,
        size |-> size, is_load |-> is_load, ticks |-> 0]
  ELSE IF /\ issued.active /\ retired
          /\ issued.address = address /\ issued.size = size
          /\ issued.is_load = is_load
  THEN [issued EXCEPT !.active = FALSE, !.done = TRUE]
  ELSE IF issued.done
  THEN NoIssue
  ELSE issued

\* ideal_memory_t::read: the bytes of Content
ideal_memory_read(address, size) ==
  [i \in 1..size |-> mem_Content[address + i - 1]]

\* ideal_memory_t::write: Content after the bytes have been stored
ideal_memory_write(address, value, size) ==
  [a \in DOMAIN mem_Content |->
     IF a >= address /\ a < address + size
     THEN value[a - address + 1]
     ELSE mem_Content[a]]

\* a memory that posts one write less
PostedReady_BelowDepth(requests) == Len(requests) < Num_posted_writes

\* write: "delay only until the request queue size is small enough"
PostedReady(requests) == Len(requests) <= Num_posted_writes

\* a memory that retires the youngest request
EraseFront_Back(requests) == SubSeq(requests, 1, Len(requests) - 1)

\* "clean-up the request": Requests.erase(Requests.begin())
EraseFront(requests) == SubSeq(requests, 2, Len(requests))

\* fixed_delay_memory_t(memory_size, num_bytes_per_burst, ...)
fixed_delay_memory_t(num_bytes_per_burst, num_ticks_per_burst, num_read_delay_ticks, num_posted_writes) ==
  /\ Num_bytes_per_burst = num_bytes_per_burst
  /\ Num_ticks_per_burst = num_ticks_per_burst
  /\ Num_read_delay_ticks = num_read_delay_ticks
  /\ Num_posted_writes = num_posted_writes
  /\ mem_Content = [a \in 0..(MemoryBytes - 1) |-> 0]
  /\ Requests = <<>>
  /\ mem_exc = "none"
  /\ mem_call = NoMemCall
  /\ issued = NoIssue

\* what an access leaves unchanged
MemoryConfigUnchanged ==
  UNCHANGED <<Num_bytes_per_burst, Num_ticks_per_burst, Num_read_delay_ticks,
              Num_posted_writes>>

\* fixed_delay_memory_t::read(s, address, value, size, is_fetch), called for
\* a memory of the class
fixed_delay_read(class, address, size, is_fetch) ==
  /\ mem_exc = "none"
  /\ MemoryConfigUnchanged
  /\ IF Unmapped(address, size)
     THEN /\ mem_exc' = "UNMAPPED"
          /\ mem_call' = MemCall("read", address, size, <<>>, FALSE, FALSE, <<>>)
          /\ UNCHANGED <<mem_Content, Requests, issued>>
     ELSE \E f \in {find_or_create_request_in(class, address, size, TRUE,
                                              is_fetch, DefaultIsPosted)} :
          /\ IF f.Requests[f.req].Num_ticks_remaining = 0
             THEN IF f.req # 1
                  THEN \* assert(tmp.Address == req.Address && ...)
                       /\ mem_exc' = "ABORT"
                       /\ mem_call' = MemCall("read", address, size, <<>>,
                                              FALSE, FALSE, <<>>)
                       /\ UNCHANGED <<mem_Content, Requests, issued>>
                  ELSE /\ Requests' = EraseFront(f.Requests)
                       /\ mem_call' = MemCall("read", address, size, <<>>,
                                              TRUE, FALSE,
                                              ideal_memory_read(address, size))
                       /\ issued' = Issue(f, address, size, TRUE, TRUE)
                       /\ UNCHANGED <<mem_Content, mem_exc>>
             ELSE /\ Requests' = f.Requests
                  /\ mem_call' = MemCall("read", address, size, <<>>, FALSE,
                                         FALSE, <<>>)
                  /\ issued' = Issue(f, address, size, TRUE, FALSE)
                  /\ UNCHANGED <<mem_Content, mem_exc>>

\* read of fixed_delay_memory_t
memory_read(address, size, is_fetch) ==
  fixed_delay_read("fixed_delay_memory_t", address, size, is_fetch)

\* fixed_delay_memory_t::write(s, address, value, size), called for a memory
\* of the class
fixed_delay_write(class, address, value, size) ==
  /\ mem_exc = "none"
  /\ MemoryConfigUnchanged
  /\ IF Unmapped(address, size)
     THEN /\ mem_exc' = "UNMAPPED"
          /\ mem_call' = MemCall("write", address, size, value, FALSE, FALSE,
                                 <<>>)
          /\ UNCHANGED <<mem_Content, Requests, issued>>
     ELSE \E posted \in {Num_posted_writes > 0} :
          \E f \in {find_or_create_request_in(class, address, size, FALSE,
                                              posted, DefaultIsPosted)} :
          /\ IF f.Requests[f.req].Num_ticks_remaining = 0
             THEN IF f.req # 1
                  THEN /\ mem_exc' = "ABORT"
                       /\ mem_call' = MemCall("write", address, size, value,
                                              FALSE, FALSE, <<>>)
                       /\ UNCHANGED <<mem_Content, Requests, issued>>
                  ELSE /\ Requests' = EraseFront(f.Requests)
                       /\ mem_Content' = ideal_memory_write(address, value, size)
                       /\ mem_call' = MemCall("write", address, size, value,
                                              TRUE, FALSE, <<>>)
                       /\ issued' = Issue(f, address, size, FALSE, TRUE)
                       /\ UNCHANGED mem_exc
             ELSE /\ Requests' = f.Requests
                  /\ mem_call' = MemCall("write", address, size, value,
                                         posted /\ PostedReady(f.Requests),
                                         posted, <<>>)
                  /\ issued' = Issue(f, address, size, FALSE, FALSE)
                  /\ UNCHANGED <<mem_Content, mem_exc>>

\* write of fixed_delay_memory_t
memory_write(address, value, size) ==
  fixed_delay_write("fixed_delay_memory_t", address, value, size)

\* fixed_delay_memory_t::tick: "update the request queue"
memory_tick ==
  /\ mem_exc = "none"
  /\ MemoryConfigUnchanged
  /\ IF Requests # <<>> /\ Requests[1].Num_ticks_remaining # 0
     THEN \E req \in {[Requests[1] EXCEPT !.Num_ticks_remaining = @ - 1]} :
            Requests' = IF req.Num_ticks_remaining = 0 /\ req.Is_posted
                        THEN EraseFront(Requests)
                        ELSE [Requests EXCEPT ![1] = req]
     ELSE UNCHANGED Requests
  /\ issued' = IF issued.active
               THEN [issued EXCEPT !.ticks = Min(@ + 1, MaxTicks)]
               ELSE NoIssue
  /\ mem_call' = [NoMemCall EXCEPT !.op = "tick"]
  /\ UNCHANGED <<mem_Content, mem_exc>>

(***************************************************************************)
(* The data path of the pipeline: two slots per stage, the general         *)
(* registers, the by-passes, loads, stores, the decoupled load and the     *)
(* statistics of run().  The state of the simulator is the record dp; the  *)
(* hooks of the stages are functions on it.  Every bundle is one word      *)
(* long, memory operations are issued in the first slot, and the data      *)
(* memory answers an access at once or asks the stage to wait.             *)
(***************************************************************************)
\* PRR after simulator_t::simulator_t: p0 is true, p1 is false
PRR == [p0 |-> TRUE, p1 |-> FALSE]

\* GPR_op_t: a register operand, the index and the value read
GPR_op_t(reg, value) == [reg |-> reg, value |-> value]

\* by_pass_t after reset()
by_pass_t == [valid |-> FALSE, reg |-> 0, value |-> 0]

\* by_pass_t::set(reg, value)
by_pass_set(reg, value) == [valid |-> TRUE, reg |-> reg, value |-> value]

\* by_pass_t::get(op): the by-passed value if the by-pass holds the register
\* of the operand, the operand otherwise
by_pass_get(bp, op) ==
  IF bp.valid /\ bp.reg = op.reg THEN GPR_op_t(bp.reg, bp.value) ELSE op

\* GPR.set(reg, value): r0 stays zero
GPR_set(gpr, reg, value) ==
  IF reg = 0 THEN gpr ELSE [gpr EXCEPT ![reg] = value]

\* an instruction with its operands, as the decoder makes it; I is the
\* instruction ("none": the bubble of instruction_data_t()), W the size of
\* the type a memory instruction accesses
Instr(I, Pred, Rd, Ra, Rs, Imm, W) ==
  [I |-> I, Pred |-> Pred, Rd |-> Rd, Ra |-> Ra, Rs |-> Rs, Imm |-> Imm,
   W |-> W, Address |-> 0, DR_Pred |-> FALSE,
   DR_Rs1 |-> GPR_op_t(0, 0), DR_Rs2 |-> GPR_op_t(0, 0),
   EX_result |-> 0, EX_Address |-> 0, EX_Rs |-> 0,
   GPR_EX_Rd |-> by_pass_t, GPR_MW_Rd |-> by_pass_t]

NoInstr == Instr("none", "p0", 0, 0, 0, 0, 1)

\* the instructions of the programs
OpNames == {"addi", "ld", "st", "dld", "waitm"}

\* the bundles of the programs: an addition, a dependent addition beside a
\* predicated-off one, a word load, loads, stores and a decoupled load whose
\* address depends on the loaded word, and waitm
Bundles ==
  {<<Instr("addi", "p0", 1, 0, 0, 1, 1), NoInstr>>,
   <<Instr("addi", "p0", 2, 1, 0, 1, 1), Instr("addi", "p1", 1, 0, 0, 2, 1)>>,
   <<Instr("ld", "p0", 1, 0, 0, 0, 4), NoInstr>>,
   <<Instr("ld", "p0", 2, 1, 0, 0, 2), NoInstr>>,
   <<Instr("ld", "p0", 2, 1, 0, 2, 1), NoInstr>>,
   <<Instr("st", "p0", 0, 1, 1, 0, 4), NoInstr>>,
   <<Instr("st", "p1", 0, 1, 1, 0, 2), NoInstr>>,
   <<Instr("dld", "p0", 0, 1, 0, 1, 2), NoInstr>>,
   <<Instr("waitm", "p0", 0, 0, 0, 0, 1), NoInstr>>}

\* the bundle the program is followed by: an addition to r0
NopBundle == <<Instr("addi", "p0", 0, 0, 0, 0, 1), NoInstr>>

\* the data memory when the program starts: the word at 0 is 1, the half
\* word at 4 is 2
MemoryImage ==
  [a \in 0..(MemoryBytes - 1) |-> IF a = 3 THEN 1 ELSE IF a = 5 THEN 2 ELSE 0]

\* from_big_endian of the bytes of an access
from_big_endian(bytes) ==
  LET RECURSIVE val(_)
      val(n) == IF n = 0 THEN 0 ELSE 256 * val(n - 1) + bytes[n]
  IN  val(Len(bytes))

\* to_big_endian of the low bytes of a value
to_big_endian(value, size) ==
  [i \in 1..size |-> (value \div (256 ^ (size - i))) % 256]

\* no exception, and simulation_exception_t(kind, info)
NoException == [kind |-> "none", info |-> 0]
simulation_exception_t(kind, info) == [kind |-> kind, info |-> info]

\* an access that checks no alignment
Misaligned_Never(address, size) == FALSE

\* "(address & (sizeof(atype) - 1)) != 0"
Misaligned(address, size) == address % size # 0

\* load of LD_INSTR and DLD_INSTR, store of ST_INSTR: the alignment check
\* and the access to the memory; ready is the answer of the memory
Access(s, address, size, ready, is_load, value) ==
  IF Misaligned(address, size)
  THEN [exc |-> simulation_exception_t("UNALIGNED", address),
        available |-> FALSE, value |-> 0, Memory |-> s.Memory]
  ELSE IF Unmapped(address, size)
  THEN [exc |-> simulation_exception_t("UNMAPPED", address),
        available |-> FALSE, value |-> 0, Memory |-> s.Memory]
  ELSE [exc |-> NoException,
        available |-> ready,
        value |-> IF is_load /\ ready
                  THEN from_big_endian([i \in 1..size |->
                                          s.Memory[address + i - 1]])
                  ELSE 0,
        Memory |-> IF ~is_load /\ ready
                   THEN [a \in DOMAIN s.Memory |->
                           IF a >= address /\ a < address + size
                           THEN to_big_endian(value, size)[a - address + 1]
                           ELSE s.Memory[a]]
                   ELSE s.Memory]

\* read_GPR_EX
read_GPR_EX(s, op) ==
  by_pass_get(s.Pipeline[SEX][0].GPR_EX_Rd,
    by_pass_get(s.Pipeline[SEX][1].GPR_EX_Rd,
      by_pass_get(s.Pipeline[SMW][0].GPR_MW_Rd,
        by_pass_get(s.Pipeline[SMW][1].GPR_MW_Rd, op)))).value

\* the stall of waitm and of a decoupled load in the DR stage
StallOnDecoupledNever(pred, active) == FALSE

\* "if (ops.DR_Pred && s.Is_decoupled_load_active) s.pipeline_stall(SDR)"
StallOnDecoupled(pred, active) == pred /\ active

\* assert(condition): ends the run unless the build defines NDEBUG
assert_fails(s, condition) == ~s.NDEBUG /\ ~condition

\* Decoupled_load.dMW(*this): i_dldt_t::dMW; a bubble does nothing;
\* dMW_loaded tells whether the load has been available in this cycle
dMW(s, ready) ==
  LET ops == s.Decoupled_load
      r == Access(s, ops.EX_Address, ops.W, ready, TRUE, 0)
  IN  IF ops.I # "dld" \/ s.exc.kind # "none"
      THEN [s EXCEPT !.dMW_loaded = FALSE]
      ELSE IF assert_fails(s, s.Is_decoupled_load_active)
      THEN [s EXCEPT !.exc = simulation_exception_t("ABORT", 0)]
      ELSE IF r.exc.kind # "none"
      THEN [s EXCEPT !.exc = r.exc]
      ELSE IF r.available
      THEN [s EXCEPT !.sm = r.value, !.Decoupled_load = NoInstr,
                     !.Is_decoupled_load_active = FALSE,
                     !.dMW_loaded = TRUE]
      ELSE [s EXCEPT !.dMW_loaded = FALSE]

\* instruction_data_t::MW of the instruction in a slot of the MW stage:
\* i_aluil_t::MW, i_ldt_t::MW, i_stt_t::MW
MW_hook(s, slot, ready) ==
  LET ops == s.Pipeline[SMW][slot]
      ld == Access(s, ops.EX_Address, ops.W, ready, TRUE, 0)
      st == Access(s, ops.EX_Address, ops.W, ready, FALSE, ops.EX_Rs)
  IN  IF s.exc.kind # "none" \/ ~ops.DR_Pred
      THEN s
      ELSE CASE ops.I = "addi" ->
                  [s EXCEPT !.GPR = GPR_set(@, ops.GPR_EX_Rd.reg,
                                            ops.GPR_EX_Rd.value),
                            !.Pipeline[SMW][slot].GPR_MW_Rd =
                               by_pass_set(ops.GPR_EX_Rd.reg,
                                           ops.GPR_EX_Rd.value),
                            !.Pipeline[SMW][slot].GPR_EX_Rd = by_pass_t]
             [] ops.I = "ld" ->
                  IF ld.exc.kind # "none"
                  THEN [s EXCEPT !.exc = ld.exc]
                  ELSE IF ld.available
                  THEN [s EXCEPT !.GPR = GPR_set(@, ops.Rd, ld.value),
                                 !.Pipeline[SMW][slot].GPR_MW_Rd =
                                    by_pass_set(ops.Rd, ld.value)]
                  ELSE [s EXCEPT !.Stall = pipeline_stall(@, SMW)]
             [] ops.I = "st" ->
                  IF st.exc.kind # "none"
                  THEN [s EXCEPT !.exc = st.exc]
                  ELSE IF st.available
                  THEN [s EXCEPT !.Memory = st.Memory]
                  ELSE [s EXCEPT !.Stall = pipeline_stall(@, SMW)]
             [] OTHER -> s

\* instruction_data_t::EX of the instruction in a slot of the EX stage:
\* i_aluil_t::EX, EX of LD_INSTR, ST_INSTR and DLD_INSTR
EX_hook(s, slot) ==
  LET ops == s.Pipeline[SEX][slot]
      address == read_GPR_EX(s, ops.DR_Rs1) + ops.Imm * ops.W
      dld == [ops EXCEPT !.EX_Address = address]
  IN  IF s.exc.kind # "none"
      THEN s
      ELSE CASE ops.I = "addi" ->
                  [s EXCEPT !.Pipeline[SEX][slot].EX_result =
                               read_GPR_EX(s, ops.DR_Rs1) + ops.Imm]
             [] ops.I = "ld" ->
                  [s EXCEPT !.Pipeline[SEX][slot].EX_Address = address]
             [] ops.I = "st" ->
                  [s EXCEPT !.Pipeline[SEX][slot].EX_Address = address,
                            !.Pipeline[SEX][slot].EX_Rs =
                               read_GPR_EX(s, ops.DR_Rs2)]
             [] ops.I = "dld" ->
                  IF ~ops.DR_Pred
                  THEN [s EXCEPT !.Pipeline[SEX][slot] = dld]
                  ELSE IF assert_fails(s, ~s.Is_decoupled_load_active)
                  THEN [s EXCEPT !.Pipeline[SEX][slot] = dld,
                                 !.exc = simulation_exception_t("ABORT", 0)]
                  ELSE [s EXCEPT !.Pipeline[SEX][slot] = dld,
                                 !.Decoupled_load = dld,
                                 !.Is_decoupled_load_active = TRUE]
             [] OTHER -> s

\* instruction_data_t::DR of the instruction in a slot of the DR stage:
\* i_aluil_t::DR, i_ldt_t::DR, i_stt_t::DR, i_dldt_t::DR, i_spcw_t::DR
DR_hook(s, slot) ==
  LET ops == s.Pipeline[SDR][slot]
      pred == PRR[ops.Pred]
      rs1 == GPR_op_t(ops.Ra, s.GPR[ops.Ra])
      rs2 == GPR_op_t(ops.Rs, s.GPR[ops.Rs])
      stalled == IF StallOnDecoupled(pred, s.Is_decoupled_load_active)
                 THEN pipeline_stall(s.Stall, SDR)
                 ELSE s.Stall
  IN  IF s.exc.kind # "none"
      THEN s
      ELSE CASE ops.I \in {"addi", "ld"} ->
                  [s EXCEPT !.Pipeline[SDR][slot].DR_Pred = pred,
                            !.Pipeline[SDR][slot].DR_Rs1 = rs1]
             [] ops.I = "st" ->
                  [s EXCEPT !.Pipeline[SDR][slot].DR_Pred = pred,
                            !.Pipeline[SDR][slot].DR_Rs1 = rs1,
                            !.Pipeline[SDR][slot].DR_Rs2 = rs2]
             [] ops.I = "dld" ->
                  [s EXCEPT !.Pipeline[SDR][slot].DR_Pred = pred,
                            !.Pipeline[SDR][slot].DR_Rs1 = rs1,
                            !.Stall = stalled]
             [] ops.I = "waitm" -> [s EXCEPT !.Stall = stalled]
             [] OTHER -> s

\* a simulation function has been invoked on the state before: hooks lists
\* the functions invoked in the cycle, up to the one that threw
Invoked(before, hook, after) ==
  IF before.exc.kind # "none"
  THEN after
  ELSE [after EXCEPT !.hooks = Append(@, hook)]

\* run(): dMW, then pipeline_invoke of MW, EX and DR, each on the slots in
\* their order
InvokeStages(s, ready_dMW, ready_MW) ==
  LET s0 == [s EXCEPT !.hooks = <<>>]
      d == Invoked(s0, "dMW", dMW(s0, ready_dMW))
      m0 == Invoked(d, "MW", MW_hook(d, 0, ready_MW))
      m1 == Invoked(m0, "MW", MW_hook(m0, 1, ready_MW))
      e0 == Invoked(m1, "EX", EX_hook(m1, 0))
      e1 == Invoked(e0, "EX", EX_hook(e0, 1))
      d0 == Invoked(e1, "DR", DR_hook(e1, 0))
  IN  Invoked(d0, "DR", DR_hook(d0, 1))

\* statistics that count an instruction in every cycle it is in MW
TrackRetiredEveryCycle(s) ==
  [s EXCEPT !.Instruction_stats =
     [j \in 0..(NUM_SLOTS - 1) |->
        [op \in OpNames |->
           IF s.Pipeline[SMW][j].I = op
           THEN IF s.Pipeline[SMW][j].DR_Pred
                THEN [@[j][op] EXCEPT !.Num_retired = @ + 1]
                ELSE [@[j][op] EXCEPT !.Num_discarded = @ + 1]
           ELSE @[j][op]]]]

\* run(): "track instructions retired"
TrackRetired(s) ==
  IF s.Stall = NUM_STAGES - 1
  THEN s
  ELSE [s EXCEPT
          !.Instruction_stats =
             [j \in 0..(NUM_SLOTS - 1) |->
                [op \in OpNames |->
                   IF s.Pipeline[SMW][j].I = op
                   THEN IF s.Pipeline[SMW][j].DR_Pred
                        THEN [@[j][op] EXCEPT !.Num_retired = @ + 1]
                        ELSE [@[j][op] EXCEPT !.Num_discarded = @ + 1]
                   ELSE @[j][op]]],
          !.Num_bubbles_retired =
             [j \in 0..(NUM_SLOTS - 1) |->
                IF s.Pipeline[SMW][j].I = "none" THEN @[j] + 1 ELSE @[j]]]

\* a shift that inserts no bubble after the stalling stage
MoveSlotsNoBubble(s) ==
  [s EXCEPT !.Pipeline =
     [i \in SIF..SMW |->
        IF i >= 1 /\ i - 1 >= s.Stall /\ i - 1 <= SEX
        THEN s.Pipeline[i - 1] ELSE s.Pipeline[i]]]

\* run(): "move pipeline stages", "insert bubbles after stalling stage" and
\* the reset of the by-passes of the EX stage when stalling in MW
MoveSlots(s) ==
  LET moved == [i \in SIF..SMW |->
                  IF i >= 1 /\ i - 1 >= s.Stall /\ i - 1 <= SEX
                  THEN s.Pipeline[i - 1] ELSE s.Pipeline[i]]
      bubbled == IF s.Stall > SIF /\ s.Stall # NUM_STAGES - 1
                 THEN [moved EXCEPT ![s.Stall + 1] =
                         [j \in 0..(NUM_SLOTS - 1) |-> NoInstr]]
                 ELSE moved
  IN  [s EXCEPT !.Pipeline =
         IF s.Stall > SEX
         THEN [bubbled EXCEPT ![SEX] =
                 [j \in 0..(NUM_SLOTS - 1) |->
                    [bubbled[SEX][j] EXCEPT !.GPR_EX_Rd = by_pass_t]]]
         ELSE bubbled]

\* the bundle at an address: the program, followed by NopBundle
BundleAt(program, address) ==
  IF address \div 4 < Len(program)
  THEN program[(address \div 4) + 1]
  ELSE NopBundle

\* run(): "update the Program counter", decode the next bundle if no stage
\* stalls, "track instructions fetched", "assign fetch address", and "reset
\* the stall counter"; Stalled keeps the stall of the cycle; the loop
\* counts the cycle
FetchSlots(s) ==
  LET pc == s.nPC
      bundle == BundleAt(s.program, pc)
  IN  IF s.Stall # SIF
      THEN [s EXCEPT !.PC = pc, !.Stalled = s.Stall, !.Stall = SIF,
                     !.Cycle = @ + 1]
      ELSE [s EXCEPT
              !.Cycle = @ + 1,
              !.PC = pc,
              !.nPC = pc + 4,
              !.Pipeline[SIF] =
                 [j \in 0..(NUM_SLOTS - 1) |->
                    [bundle[j + 1] EXCEPT !.Address = pc]],
              !.Instruction_stats =
                 [j \in 0..(NUM_SLOTS - 1) |->
                    [op \in OpNames |->
                       IF bundle[j + 1].I = op
                       THEN [@[j][op] EXCEPT !.Num_fetched = @ + 1]
                       ELSE @[j][op]]],
              !.Stalled = SIF,
              !.Stall = SIF]

\* simulator_t::simulator_t(...) and the initializations of run() for a
\* program at address 0
simulator_dp(program) ==
  [program |-> program,
   Cycle |-> 0,
   PC |-> 0, nPC |-> 0,
   GPR |-> [r \in 0..2 |-> 0],
   sm |-> 0,
   Memory |-> MemoryImage,
   Decoupled_load |-> NoInstr,
   Is_decoupled_load_active |-> FALSE,
   Pipeline |-> [i \in SIF..SMW |-> [j \in 0..(NUM_SLOTS - 1) |-> NoInstr]],
   Stall |-> SIF,
   Stalled |-> SIF,
   Instruction_stats |->
     [j \in 0..(NUM_SLOTS - 1) |->
        [op \in OpNames |->
           [Num_fetched |-> 0, Num_retired |-> 0, Num_discarded |-> 0]]],
   Num_bubbles_retired |-> [j \in 0..(NUM_SLOTS - 1) |-> 0],
   dMW_loaded |-> FALSE,
   NDEBUG |-> FALSE,
   hooks |-> <<>>,
   exc |-> NoException]

\* run(): one iteration of the main simulation loop; an exception leaves the
\* loop with what the hooks have done
run_cycle_dp(ready_dMW, ready_MW) ==
  /\ dp.exc.kind = "none"
  /\ \E s \in {InvokeStages(dp, ready_dMW, ready_MW)} :
       dp' = IF s.exc.kind # "none"
             THEN s
             ELSE FetchSlots(MoveSlots(TrackRetired(s)))

(***************************************************************************)
(* The stack cache on its own: any sequence of calls the pipeline can      *)
(* issue.  A call that returned false is re-issued until it returns true.  *)
(***************************************************************************)
\* block_stack_cache_t::block_stack_cache_t(memory, num_blocks, num_blocks_total)
block_stack_cache_t(num_blocks, num_blocks_total) ==
  /\ sc_Num_blocks = num_blocks
  /\ sc_Num_blocks_total = num_blocks_total
  /\ sc_Phase = "IDLE"
  /\ sc_Num_transfer_blocks = 0
  /\ Num_reserved_blocks = 0
  /\ Num_spilled_blocks = 0
  /\ Num_free_empty = 0
  /\ Num_write_accesses = 0
  /\ Content = <<>>
  /\ Buffer = <<>>
  /\ stack_top = StackTopInit
  /\ sc_exc = "none"
  /\ sc_call = NoCall
  /\ mem_op = NoMemOp

\* the size arguments, in bytes: whole blocks (the stack-control instructions
\* pass Imm * NUM_STACK_CACHE_BLOCK_BYTES) and a single byte
ReqSizes == {b * NUM_STACK_CACHE_BLOCK_BYTES : b \in 0..MaxReqBlocks} \cup {1}

InitSC ==
  \E nb \in 1..MaxCacheBlocks : \E nt \in nb..MaxTotalBlocks :
    /\ block_stack_cache_t(nb, nt)
    /\ lru_method_cache_t("lru", NUM_INIT_BLOCKS)
    /\ simulator_t
    /\ fixed_delay_memory_t(NUM_MEMORY_BLOCK_BYTES, 1, 0, 0)
    /\ dp = simulator_dp(<<>>)

NextSC ==
  \/ \E size \in ReqSizes, ready \in BOOLEAN :
       reserve(size, ready) /\ UNCHANGED dp
  \/ \E size \in ReqSizes : free(size) /\ UNCHANGED dp
  \/ \E size \in ReqSizes, ready \in BOOLEAN :
       ensure(size, ready) /\ UNCHANGED dp

SpecSC == InitSC /\ [][NextSC]_vars

(***************************************************************************)
(* The stack cache with the bytes of Content tracked: a small cache, and    *)
(* the read and write ports.                                               *)
(***************************************************************************)
\* the sizes of the accesses of the load and store instructions
AccessSizes == {1, 2, 4}

\* the offsets of the accesses
AccessAddrs ==
  0..((DataCacheBlocks + DataTotalBlocks) * NUM_STACK_CACHE_BLOCK_BYTES)

\* the bytes an access of the given size writes: distinct bytes, other ones
\* for every write
WriteValue(size) == [i \in 1..size |-> 10 * (Num_write_accesses + 1) + i]

InitSCData ==
  \E nb \in 1..DataCacheBlocks : \E nt \in nb..(nb + DataTotalBlocks - 1) :
    /\ block_stack_cache_t(nb, nt)
    /\ lru_method_cache_t("lru", NUM_INIT_BLOCKS)
    /\ simulator_t
    /\ fixed_delay_memory_t(NUM_MEMORY_BLOCK_BYTES, 1, 0, 0)
    /\ dp = simulator_dp(<<>>)

NextSCData ==
  \/ \E size \in ReqSizes, ready \in BOOLEAN :
       reserve(size, ready) /\ UNCHANGED dp
  \/ \E size \in ReqSizes : free(size) /\ UNCHANGED dp
  \/ \E size \in ReqSizes, ready \in BOOLEAN :
       ensure(size, ready) /\ UNCHANGED dp
  \/ \E address \in AccessAddrs, size \in AccessSizes :
       sc_Phase = "IDLE" /\ read(address, size) /\ UNCHANGED dp
  \/ \E address \in AccessAddrs, size \in AccessSizes :
       sc_Phase = "IDLE" /\ write(address, WriteValue(size), size) /\
       UNCHANGED dp

SpecSCData == InitSCData /\ [][NextSCData]_vars

(***************************************************************************)
(* The method cache on its own: initialize, then any sequence of requests  *)
(* the pipeline can issue.                                                 *)
(***************************************************************************)
InitMC ==
  /\ \E kind \in {"lru", "fifo"}, nb \in 1..MaxMethodCacheBlocks :
       lru_method_cache_t(kind, nb)
  /\ block_stack_cache_t(1, 1)
  /\ simulator_t
  /\ fixed_delay_memory_t(NUM_MEMORY_BLOCK_BYTES, 1, 0, 0)
  /\ dp = simulator_dp(<<>>)

NextMC ==
  \/ initialize(EntryAddr) /\ UNCHANGED <<scVars, coreVars, memVars, dp>>
  \/ \E address \in MethodAddrs, size_ready \in BOOLEAN,
        transfer_ready \in BOOLEAN, wild \in WildOutcomes :
       is_available(address, size_ready, transfer_ready, wild) /\
       UNCHANGED <<scVars, coreVars, memVars, dp>>

SpecMC == InitMC /\ [][NextMC]_vars

(***************************************************************************)
(* The method cache serving the requests for a few methods: the entry      *)
(* method, the three-block method, the empty method and two one-block      *)
(* methods.                                                                *)
(***************************************************************************)
LoadAddrs == {MethodStride * k : k \in {1, 2, 3, 5, 6}}

NextMCLoad ==
  \/ initialize(EntryAddr) /\ UNCHANGED <<scVars, coreVars, memVars, dp>>
  \/ \E address \in LoadAddrs, size_ready \in BOOLEAN,
        transfer_ready \in BOOLEAN, wild \in WildOutcomes :
       is_available(address, size_ready, transfer_ready, wild) /\
       UNCHANGED <<scVars, coreVars, memVars, dp>>

SpecMCLoad == InitMC /\ [][NextMCLoad]_vars

(***************************************************************************)
(* The fixed-delay memory on its own: any sequence of accesses and ticks   *)
(* the units of the simulator can issue.                                   *)
(***************************************************************************)
\* the configurations: burst size in bytes, ticks per burst, read delay in
\* ticks, and the depth of write posting
BurstBytes == {2, 4}
BurstTicks == {1, 2}
ReadDelayTicks == {0, 1}
PostedWrites == {0, 1}

\* the largest number of outstanding requests: one more than the deepest write
\* posting
MaxQueue ==
  1 + CHOOSE n \in PostedWrites : \A m \in PostedWrites : m <= n

\* the addresses and the sizes of the accesses: within one burst block,
\* across blocks, and beyond the end of the memory
MemAddrs == {0, 3}
MemSizes == {2, 4}

\* the bytes a write of the given size stores: nonzero and distinct
MemValue(size) == [i \in 1..size |-> 10 + i]

InitMem ==
  /\ \E bb \in BurstBytes, bt \in BurstTicks, rd \in ReadDelayTicks,
        pw \in PostedWrites :
       fixed_delay_memory_t(bb, bt, rd, pw)
  /\ block_stack_cache_t(1, 1)
  /\ lru_method_cache_t("lru", NUM_INIT_BLOCKS)
  /\ simulator_t
  /\ dp = simulator_dp(<<>>)

NextMem ==
  \/ \E address \in MemAddrs, size \in MemSizes :
       /\ memory_read(address, size, FALSE)
       /\ Len(Requests') <= MaxQueue
       /\ UNCHANGED <<scVars, mcVars, coreVars, dp>>
  \/ \E address \in MemAddrs, size \in MemSizes :
       /\ memory_write(address, MemValue(size), size)
       /\ Len(Requests') <= MaxQueue
       /\ UNCHANGED <<scVars, mcVars, coreVars, dp>>
  \/ memory_tick /\ UNCHANGED <<scVars, mcVars, coreVars, dp>>

SpecMem == InitMem /\ [][NextMem]_vars

\* the memory is ticked in every cycle of the simulation loop
SpecMemFair ==
  SpecMem /\ WF_vars(memory_tick /\ UNCHANGED <<scVars, mcVars, coreVars, dp>>)

(***************************************************************************)
(* The data path running every program of three bundles for max_cycles     *)
(* cycles: until the bundles after the program have filled the pipeline,   *)
(* and the cycles spent stalled.                                           *)
(***************************************************************************)
Programs == {<<b1, b2, b3>> : b1 \in Bundles, b2 \in Bundles, b3 \in Bundles}

\* the argument max_cycles of run()
max_cycles(program) == Len(program) + NUM_STAGES + MaxStallCycles

InitPipe ==
  /\ \E program \in Programs, ndebug \in BOOLEAN :
       dp = [simulator_dp(program) EXCEPT !.NDEBUG = ndebug]
  /\ block_stack_cache_t(1, 1)
  /\ lru_method_cache_t("lru", NUM_INIT_BLOCKS)
  /\ simulator_t
  /\ fixed_delay_memory_t(NUM_MEMORY_BLOCK_BYTES, 1, 0, 0)

NextPipe ==
  \E ready_dMW \in BOOLEAN, ready_MW \in BOOLEAN :
    /\ dp.Cycle < max_cycles(dp.program)
    /\ run_cycle_dp(ready_dMW, ready_MW)
    /\ UNCHANGED <<scVars, mcVars, coreVars, memVars>>

SpecPipe == InitPipe /\ [][NextPipe]_vars

(***************************************************************************)
(* The simulator running the program on a method cache of either class.    *)
(***************************************************************************)
\* the values of IF_PC at the EX stage of a branch: the address of the
\* bundle, or the zero of a field never assigned
IFPCValues(ops) == {0, ops.Address}

InitCore ==
  /\ \E kind \in {"lru", "fifo"}, nb \in NUM_INIT_BLOCKS..MaxMethodCacheBlocks :
       lru_method_cache_t(kind, nb)
  /\ block_stack_cache_t(1, 1)
  /\ simulator_t
  /\ fixed_delay_memory_t(NUM_MEMORY_BLOCK_BYTES, 1, 0, 0)
  /\ dp = simulator_dp(<<>>)

NextCore ==
  \/ run_initialize(EntryAddr) /\ UNCHANGED <<scVars, memVars, dp>>
  \/ \E size_ready \in BOOLEAN, transfer_ready \in BOOLEAN,
        wild \in WildOutcomes, mem_ready \in BOOLEAN, pred \in BOOLEAN,
        if_pc \in IFPCValues(Pipeline[SEX]) :
       run_cycle(size_ready, transfer_ready, wild, mem_ready, pred, if_pc) /\
       UNCHANGED <<scVars, memVars, dp>>

SpecCore == InitCore /\ [][NextCore]_vars

(***************************************************************************)
(* Exceptions leaving run(): each thrower of simulation_exception_t under  *)
(* the catch of the main loop.                                             *)
(***************************************************************************)
\* the two private constructors: (kind, info, pc, cycle) leaves the message
\* empty, (kind, msg, pc, cycle) leaves the info zero
exception_info(kind, info, pc, cycle) ==
  [Kind |-> kind, Message |-> "", Info |-> info, PC |-> pc, Cycle |-> cycle]
exception_msg(kind, msg, pc, cycle) ==
  [Kind |-> kind, Message |-> msg, Info |-> 0, PC |-> pc, Cycle |-> cycle]

\* the static throwers: halt, illegal (both), unmapped, illegal_access,
\* stack_exceeded, code_exceeded, illegal_pc, illegal_pc_msg, unaligned, over
\* a few numeric details and free-form messages
Throwers ==
  {exception_info(k, n, 0, 0) :
     k \in {"HALT", "ILLEGAL", "UNMAPPED", "ILLEGAL_ACCESS", "CODE_EXCEEDED",
            "ILLEGAL_PC", "UNALIGNED"}, n \in 0..3} \cup
  {exception_msg(k, m, 0, 0) :
     k \in {"ILLEGAL", "STACK_EXCEEDED", "ILLEGAL_PC"},
     m \in {"stack cache size exceeded", "illegal operation"}}

\* get_message(): the info in hexadecimal when the message is empty
get_message(e) ==
  IF e.Message = "" THEN <<"%1$08x", e.Info>> ELSE <<e.Message>>

\* the catch of run(): throw simulation_exception_t(e.get_kind(),
\* e.get_info(), PC, Cycle)
run_catch(e, pc, cycle) == exception_info(e.Kind, e.Info, pc, cycle)

\* an iteration of the main loop that throws nothing: PC = nPC, some next
\* nPC, Cycle++
run_iteration(npc) ==
  /\ dp.left.Kind = "none"
  /\ dp.Cycle < MaxTicks
  /\ dp' = [dp EXCEPT !.PC = dp.nPC, !.nPC = npc, !.Cycle = dp.Cycle + 1]

\* an iteration of the main loop in which e is thrown: the catch throws
\* the exception that leaves run()
run_throws(e) ==
  /\ dp.left.Kind = "none"
  /\ dp' = [dp EXCEPT !.thrown = e, !.left = run_catch(e, dp.PC, dp.Cycle)]

InitExc ==
  /\ dp = [PC |-> 0, nPC |-> 0, Cycle |-> 0,
           thrown |-> exception_info("none", 0, 0, 0),
           left |-> exception_info("none", 0, 0, 0)]
  /\ block_stack_cache_t(1, 1)
  /\ lru_method_cache_t("lru", NUM_INIT_BLOCKS)
  /\ simulator_t
  /\ fixed_delay_memory_t(NUM_MEMORY_BLOCK_BYTES, 1, 0, 0)

NextExc ==
  \/ \E npc \in {0, 4, 8} : run_iteration(npc) /\ UNCHANGED <<scVars, mcVars, coreVars, memVars>>
  \/ \E e \in Throwers : run_throws(e) /\ UNCHANGED <<scVars, mcVars, coreVars, memVars>>

SpecExc == InitExc /\ [][NextExc]_vars

(***************************************************************************)
(* The stack-control instructions sres, sens and sfree in the pipeline, on *)
(* the block stack cache.  The special register st is stack_top.  The      *)
(* instructions are in slot 0, in consecutive bundles or with bubbles      *)
(* between them.                                                           *)
(***************************************************************************)
\* the number of stack-control instructions of a program
MaxStackControl == 3

\* an instruction of STC_INSTR with its operands, as the decoder makes it
StackControl(I, Pred, Imm) ==
  [I |-> I, Pred |-> Pred, Imm |-> Imm, DR_Pred |-> FALSE, DR_Ss |-> 0]

\* the bubble of instruction_data_t()
NoStackControl == StackControl("none", "p0", 0)

\* DR of STC_INSTR
STC_DR(ops, st) ==
  IF ops.I = "none"
  THEN ops
  ELSE [ops EXCEPT !.DR_Pred = PRR[ops.Pred], !.DR_Ss = st]

\* MW of STC_INSTR: "uword_t stack_top = ops.DR_Ss; if (ops.DR_Pred &&
\* !s.Stack_cache.function(Imm * NUM_STACK_CACHE_BLOCK_BYTES, stack_top))
\* s.pipeline_stall(SMW); s.SPR.set(st, stack_top)"
STC_MW(ops, ready) ==
  IF ops.I = "none"
  THEN UNCHANGED <<scVars, mcVars, coreVars, memVars>>
  ELSE IF ~ops.DR_Pred
  THEN /\ stack_top' = ops.DR_Ss
       /\ UNCHANGED <<sc_Num_blocks, sc_Num_blocks_total, sc_Phase,
                      sc_Num_transfer_blocks, Num_reserved_blocks,
                      Num_spilled_blocks, Num_free_empty, Num_write_accesses,
                      Content, Buffer, sc_exc, sc_call, mem_op, mcVars,
                      coreVars, memVars>>
  ELSE CASE ops.I = "sres" ->
              reserve_top(ops.Imm * NUM_STACK_CACHE_BLOCK_BYTES, ops.DR_Ss, ready)
         [] ops.I = "sens" ->
              ensure_top(ops.Imm * NUM_STACK_CACHE_BLOCK_BYTES, ops.DR_Ss, ready)
         [] ops.I = "sfree" ->
              free_top(ops.Imm * NUM_STACK_CACHE_BLOCK_BYTES, ops.DR_Ss)

\* the stack top after the instruction in MW when reserve, ensure and free
\* are applied one after another, each to the stack top its predecessor
\* left: seq is that stack top before the instruction, st the register
\* after MW
SequentialTop(seq, ops, st) ==
  IF ops.I # "none" /\ ops.DR_Pred THEN seq + (st - ops.DR_Ss) ELSE seq

\* run(): one iteration of the main loop with the instruction fetched: MW
\* and DR on the stack-control instructions, the shift of the stages
run_cycle_stc(ready, fetched) ==
  /\ sc_exc = "none"
  /\ dp.Cycle < MaxTicks
  /\ STC_MW(dp.Pipeline[SMW], ready)
  /\ LET mw == dp.Pipeline[SMW]
         stalls == mw.I # "none" /\ mw.DR_Pred /\ sc_call'.ret = "false"
         dr == STC_DR(dp.Pipeline[SDR], stack_top')
         seq == SequentialTop(dp.seq, mw, stack_top')
     IN  dp' = IF sc_exc' # "none"
               THEN [dp EXCEPT !.running = FALSE]
               ELSE IF stalls
               THEN [dp EXCEPT !.Pipeline[SDR] = dr, !.Stalled = SMW,
                               !.Cycle = @ + 1]
               ELSE [dp EXCEPT
                       !.seq = seq,
                       !.Pipeline = [i \in SIF..SMW |->
                                       IF i = SIF THEN fetched
                                       ELSE IF i = SEX THEN dr
                                       ELSE dp.Pipeline[i - 1]],
                       !.Stalled = SIF,
                       !.Cycle = @ + 1,
                       !.Num_fetched =
                          IF fetched.I = "none" THEN @ ELSE @ + 1]

InitSTC ==
  /\ \E nb \in 1..2 : block_stack_cache_t(nb, MaxTotalBlocks)
  /\ lru_method_cache_t("lru", NUM_INIT_BLOCKS)
  /\ simulator_t
  /\ fixed_delay_memory_t(NUM_MEMORY_BLOCK_BYTES, 1, 0, 0)
  /\ dp = [Pipeline |-> [i \in SIF..SMW |-> NoStackControl], Stalled |-> SIF,
           Cycle |-> 0, Num_fetched |-> 0, running |-> TRUE,
           seq |-> StackTopInit]

\* the programs: bubbles and at most MaxStackControl instructions sres,
\* sens and sfree of one or two blocks
NextSTC ==
  \E ready \in BOOLEAN, I \in {"none", "sres", "sens", "sfree"},
     Pred \in {"p0", "p1"}, Imm \in 0..2 :
    /\ (I = "none") = (Imm = 0)
    /\ I = "none" => Pred = "p0"
    /\ I # "none" => dp.Num_fetched < MaxStackControl
    /\ run_cycle_stc(ready, StackControl(I, Pred, Imm))

SpecSTC == InitSTC /\ [][NextSTC]_vars

(***************************************************************************)
(* The fetch of run() with the interrupt handler: the stall of the cycle,  *)
(* the pending interrupt and the bundle decoded are inputs.                *)
(***************************************************************************)
\* run() before the loop, with the pseudo instruction intr
simulator_intr ==
  [Cycle |-> 0, PC |-> 0, nPC |-> 0, branch_counter |-> 0,
   interrupt_handling |-> 0, bundle |-> <<"none", "none">>, s9 |-> 0,
   Stalled |-> SIF, did |-> "none", flow2 |-> <<FALSE, FALSE>>,
   since |-> NUM_STAGES, exc |-> "none"]

\* run(), from "update the Program counter" to "assign fetch address":
\* is_flow and iw_size describe the bundle at PC; iw_size is assigned by the
\* decoder only, so that the test "iw_size == 0" reads the indeterminate
\* value zero_wild in the cycles that dispatch an interrupt or insert a
\* bubble; counting the pseudo instruction, whose ID is
\* get_num_instructions(), writes behind Instruction_stats[0] and may end
\* the process (crash_wild)
fetch_cycle(stall, pending, is_flow, iw_size, zero_wild, crash_wild) ==
  LET pc == dp.nPC
      dispatch == pending /\ dp.branch_counter = 0 /\ dp.interrupt_handling = 0
      bubble == ~dispatch /\ dp.interrupt_handling > 0
      s == [dp EXCEPT !.Cycle = @ + 1, !.PC = pc, !.Stalled = stall]
  IN  /\ dp.exc = "none"
      /\ dp.Cycle < MaxTicks
      /\ dp' =
           IF stall # SIF
           THEN [s EXCEPT !.did = "hold"]
           ELSE IF dispatch
           THEN [s EXCEPT !.bundle = <<"intr", "none">>,
                          !.interrupt_handling = 3,
                          !.s9 = pc,
                          !.did = "dispatch",
                          !.since = 0,
                          !.exc = IF zero_wild THEN "ILLEGAL"
                                  ELSE IF crash_wild THEN "ABORT"
                                  ELSE "none"]
           ELSE IF bubble
           THEN [s EXCEPT !.bundle = <<"none", "none">>,
                          !.interrupt_handling = @ - 1,
                          !.did = "bubble",
                          !.since = @ + 1,
                          !.exc = IF zero_wild THEN "ILLEGAL" ELSE "none"]
           ELSE [s EXCEPT !.bundle = <<IF is_flow THEN "flow" ELSE "op", "none">>,
                          !.branch_counter = IF is_flow THEN 2
                                             ELSE IF @ > 0 THEN @ - 1 ELSE @,
                          !.nPC = pc + iw_size * 4,
                          !.did = "fetch",
                          !.flow2 = <<is_flow, @[1]>>,
                          !.since = IF @ < NUM_STAGES THEN @ + 1 ELSE @]

InitIntr ==
  /\ dp = simulator_intr
  /\ block_stack_cache_t(1, 1)
  /\ lru_method_cache_t("lru", NUM_INIT_BLOCKS)
  /\ simulator_t
  /\ fixed_delay_memory_t(NUM_MEMORY_BLOCK_BYTES, 1, 0, 0)

NextIntr ==
  \E stall \in {SIF, SDR, SMW}, pending \in BOOLEAN, is_flow \in BOOLEAN,
     iw_size \in 1..2, zero_wild \in BOOLEAN, crash_wild \in BOOLEAN :
    /\ fetch_cycle(stall, pending, is_flow, iw_size, zero_wild, crash_wild)
    /\ UNCHANGED <<scVars, mcVars, coreVars, memVars>>

SpecIntr == InitIntr /\ [][NextIntr]_vars

(***************************************************************************)
(* The stack cache with the last spill remembered: the address and the     *)
(* size of the write of the last spill that completed, and the number of   *)
(* spilled blocks it left.                                                 *)
(***************************************************************************)
NoSpill == [addr |-> 0, size |-> 0, spilled |-> 0]

\* the record of the spill the step completes, if it completes one
LastSpill ==
  IF mem_op'.kind = "write" /\ sc_call'.ret = "true"
  THEN [addr |-> mem_op'.addr, size |-> mem_op'.size,
        spilled |-> Num_spilled_blocks']
  ELSE dp

InitSpill ==
  \E nb \in 1..MaxCacheBlocks : \E nt \in nb..MaxTotalBlocks :
    /\ block_stack_cache_t(nb, nt)
    /\ lru_method_cache_t("lru", NUM_INIT_BLOCKS)
    /\ simulator_t
    /\ fixed_delay_memory_t(NUM_MEMORY_BLOCK_BYTES, 1, 0, 0)
    /\ dp = NoSpill

NextSpill ==
  \/ \E size \in ReqSizes, ready \in BOOLEAN :
       reserve(size, ready) /\ dp' = LastSpill
  \/ \E size \in ReqSizes : free(size) /\ UNCHANGED dp
  \/ \E size \in ReqSizes, ready \in BOOLEAN :
       ensure(size, ready) /\ UNCHANGED dp

SpecSpill == InitSpill /\ [][NextSpill]_vars

(***************************************************************************)
(* The MW stage with both slots: pipeline_invoke calls the MW function of  *)
(* slot 0 and then of slot 1 in every cycle, on the stack cache.  The      *)
(* bundle in MW stays while a stack-control instruction stalls the stage.  *)
(***************************************************************************)
\* the number of bundles of a program
MaxBundles == 2

\* the instructions of a slot: a bubble, the stack-control instructions and
\* the load and the store of a word of the stack cache, predicates true
SlotInstrs ==
  {[I |-> "none", Imm |-> 0], [I |-> "sres", Imm |-> 1],
   [I |-> "sres", Imm |-> 2], [I |-> "sens", Imm |-> 1],
   [I |-> "sfree", Imm |-> 1], [I |-> "lws", Imm |-> 0],
   [I |-> "sws", Imm |-> 0]}

\* "assert(Phase == IDLE && Num_transfer_blocks == 0)" of free fails;
\* reserve in phase FILL and ensure in phase SPILL reach "assert(false);
\* abort()"
stack_cache_abort ==
  /\ Raise("ABORT", [sc_call EXCEPT !.ret = "exc"])
  /\ UNCHANGED <<sc_Num_blocks, sc_Num_blocks_total, sc_Phase,
                 sc_Num_transfer_blocks, Num_reserved_blocks,
                 Num_spilled_blocks, Num_free_empty, Num_write_accesses,
                 Content, Buffer, stack_top, mem_op, mcVars, coreVars, memVars>>

\* MW of the instruction of a slot: STC_INSTR calls reserve, ensure or free
\* with the copy of DR_Ss; in phase SPILL reserve, and in phase FILL ensure,
\* goes on with the pending transfer whatever its size argument is;
\* i_ldt_t and i_stt_t call read and write
slot_MW(ins, DR_Ss, ready) ==
  CASE ins.I = "none" -> UNCHANGED <<scVars, mcVars, coreVars, memVars>>
    [] ins.I = "sres" ->
         IF sc_Phase = "FILL" THEN stack_cache_abort
         ELSE reserve_top(IF sc_Phase = "SPILL" THEN sc_call.size
                          ELSE ins.Imm * NUM_STACK_CACHE_BLOCK_BYTES,
                          DR_Ss, ready)
    [] ins.I = "sens" ->
         IF sc_Phase = "SPILL" THEN stack_cache_abort
         ELSE ensure_top(IF sc_Phase = "FILL" THEN sc_call.size
                         ELSE ins.Imm * NUM_STACK_CACHE_BLOCK_BYTES,
                         DR_Ss, ready)
    [] ins.I = "sfree" ->
         IF sc_Phase = "IDLE" /\ sc_Num_transfer_blocks = 0
         THEN free_top(ins.Imm * NUM_STACK_CACHE_BLOCK_BYTES, DR_Ss)
         ELSE stack_cache_abort
    [] ins.I = "lws" -> read(0, 4)
    [] ins.I = "sws" -> write(0, WriteValue(4), 4)

\* pipeline_invoke(SMW, &instruction_data_t::MW), one slot at a time, and
\* after slot 1 the rest of the iteration of run(): the bundle stays when
\* the stage stalls, the next bundle moves in otherwise; owner is the slot
\* whose call left the phase IDLE
pipeline_invoke_MW(ready, next) ==
  LET ins == dp.bundle[dp.slot]
      stalls == ins.I \in {"sres", "sens", "sfree"} /\ sc_call'.ret = "false"
      stall == dp.Stall \/ stalls
      owner == IF sc_Phase = "IDLE" /\ sc_Phase' # "IDLE" THEN dp.slot
               ELSE IF sc_Phase' = "IDLE" THEN -1 ELSE dp.owner
  IN  /\ sc_exc = "none"
      /\ dp.running
      /\ dp.Cycle < MaxTicks
      /\ slot_MW(ins, dp.DR_Ss, ready)
      /\ dp' =
           IF sc_exc' # "none"
           THEN [dp EXCEPT !.running = FALSE]
           ELSE IF dp.slot = 0
           THEN [dp EXCEPT !.slot = 1, !.Stall = stall, !.owner = owner]
           ELSE IF stall
           THEN [dp EXCEPT !.slot = 0, !.Stall = FALSE, !.owner = owner,
                           !.Cycle = @ + 1]
           ELSE [dp EXCEPT !.slot = 0, !.Stall = FALSE, !.owner = owner,
                           !.Cycle = @ + 1, !.bundle = next,
                           !.DR_Ss = stack_top',
                           !.Num_fetched = @ + 1,
                           !.running = dp.Num_fetched < MaxBundles]

InitSlots ==
  /\ \E nb \in 1..2 : block_stack_cache_t(nb, MaxTotalBlocks)
  /\ lru_method_cache_t("lru", NUM_INIT_BLOCKS)
  /\ simulator_t
  /\ fixed_delay_memory_t(NUM_MEMORY_BLOCK_BYTES, 1, 0, 0)
  /\ dp = [bundle |-> [j \in 0..1 |-> [I |-> "none", Imm |-> 0]], slot |-> 0,
           Stall |-> FALSE, owner |-> -1, Cycle |-> 0, DR_Ss |-> StackTopInit,
           Num_fetched |-> 0, running |-> TRUE]

NextSlots ==
  \E ready \in BOOLEAN, i0 \in SlotInstrs, i1 \in SlotInstrs :
    pipeline_invoke_MW(ready, [j \in 0..1 |-> IF j = 0 THEN i0 ELSE i1])

SpecSlots == InitSlots /\ [][NextSlots]_vars

(***************************************************************************)
(* The fixed-delay memory with a caller that waits: an access that was     *)
(* answered not ready is issued again until it is answered ready, as the   *)
(* stalled stage of the pipeline does; the memory is ticked meanwhile.     *)
(***************************************************************************)
\* the access the caller waits for
Waiting(op, address, size) == [op |-> op, address |-> address, size |-> size]
NotWaiting == Waiting("none", 0, 0)

\* the caller after the call: it waits if the call returned false
AfterCall ==
  IF mem_exc' = "none" /\ ~mem_call'.ret
  THEN Waiting(mem_call'.op, mem_call'.address, mem_call'.size)
  ELSE NotWaiting

\* a new access, issued when the caller waits for none
issue_access ==
  /\ dp = NotWaiting
  /\ \E address \in MemAddrs, size \in MemSizes :
       \/ memory_read(address, size, FALSE)
       \/ memory_write(address, MemValue(size), size)
  /\ Len(Requests') <= MaxQueue
  /\ dp' = AfterCall
  /\ UNCHANGED <<scVars, mcVars, coreVars>>

\* the access of the stalled stage, issued again
reissue_access ==
  /\ dp # NotWaiting
  /\ IF dp.op = "read"
     THEN memory_read(dp.address, dp.size, FALSE)
     ELSE memory_write(dp.address, MemValue(dp.size), dp.size)
  /\ dp' = AfterCall
  /\ UNCHANGED <<scVars, mcVars, coreVars>>

InitMemWait ==
  /\ \E bb \in BurstBytes, bt \in BurstTicks, rd \in ReadDelayTicks,
        pw \in PostedWrites :
       fixed_delay_memory_t(bb, bt, rd, pw)
  /\ block_stack_cache_t(1, 1)
  /\ lru_method_cache_t("lru", NUM_INIT_BLOCKS)
  /\ simulator_t
  /\ dp = NotWaiting

NextMemWait ==
  \/ issue_access
  \/ reissue_access
  \/ memory_tick /\ UNCHANGED <<scVars, mcVars, coreVars, dp>>

SpecMemWait == InitMemWait /\ [][NextMemWait]_vars

\* run() ticks the memory in every cycle, and the stalled stage calls the
\* memory again in every cycle
SpecMemWaitFair ==
  /\ SpecMemWait
  /\ WF_vars(memory_tick /\ UNCHANGED <<scVars, mcVars, coreVars, dp>>)
  /\ WF_vars(reissue_access)

(***************************************************************************)
(* tdm_memory_t (src/memory.cc): the queue of the fixed-delay memory,      *)
(* counted down once per round at the end of the slot of this core.  The   *)
(* fields of the derived class and the caller are the record dp; in every  *)
(* cycle the caller makes at most one access, the access it waits for if   *)
(* it waits for one, and then the memory is ticked.                        *)
(***************************************************************************)
\* the cores that share the memory, and the refresh ticks of a round
MaxCores == 2
MaxRefreshTicks == 1

\* read and write of tdm_memory_t
tdm_read(address, size, is_fetch) ==
  fixed_delay_read("tdm_memory_t", address, size, is_fetch)

tdm_write(address, value, size) ==
  fixed_delay_write("tdm_memory_t", address, value, size)

\* the constructor: false where it aborts with "Read delay too long"
tdm_memory_t(num_cores, cpu_id, num_refresh_ticks_per_round) ==
  LET Round_length == num_cores * Num_ticks_per_burst +
                      num_refresh_ticks_per_round
  IN  /\ ~(Num_ticks_per_burst + Num_read_delay_ticks >= Round_length)
      /\ dp = [Round_counter |-> 0, Is_Transferring |-> FALSE,
               Round_length |-> Round_length,
               Round_start |-> cpu_id * Num_ticks_per_burst,
               wait |-> NotWaiting, phase |-> "access",
               since |-> Round_length]

\* tdm_memory_t::tick_request: round_end
round_end(req) ==
  LET end == dp.Round_start + Num_ticks_per_burst +
             (IF ~req.Is_posted THEN Num_read_delay_ticks ELSE 0)
  IN  IF end >= dp.Round_length THEN end - dp.Round_length ELSE end

\* tdm_memory_t::tick, with fixed_delay_memory_t::tick and tick_request;
\* since counts the ticks after the last count-down
tdm_tick ==
  /\ mem_exc = "none"
  /\ dp.phase = "tick"
  /\ MemoryConfigUnchanged
  /\ mem_call' = [NoMemCall EXCEPT !.op = "tick"]
  /\ LET Round_counter == (dp.Round_counter + 1) % dp.Round_length
         at_start == Round_counter = dp.Round_start
     IN  IF at_start /\ dp.Is_Transferring
         THEN \* assert(!Is_Transferring && "Overlapping transfers ...")
              /\ mem_exc' = "ABORT"
              /\ dp' = [dp EXCEPT !.Round_counter = Round_counter,
                                  !.phase = "access"]
              /\ UNCHANGED <<mem_Content, Requests, issued>>
         ELSE LET Is_Transferring == IF at_start THEN Requests # <<>>
                                     ELSE dp.Is_Transferring
                  ticked == /\ Requests # <<>>
                            /\ Requests[1].Num_ticks_remaining # 0
                  counted == ticked /\ round_end(Requests[1]) = Round_counter
                  req == IF counted
                         THEN [Requests[1] EXCEPT !.Num_ticks_remaining = @ - 1]
                         ELSE Requests[1]
              IN  /\ Requests' =
                       IF ticked
                       THEN IF req.Num_ticks_remaining = 0 /\ req.Is_posted
                            THEN EraseFront(Requests)
                            ELSE [Requests EXCEPT ![1] = req]
                       ELSE Requests
                  /\ dp' = [dp EXCEPT
                              !.Round_counter = Round_counter,
                              !.Is_Transferring = IF counted THEN FALSE
                                                  ELSE Is_Transferring,
                              !.phase = "access",
                              !.since = IF counted THEN 0
                                        ELSE Min(@ + 1, dp.Round_length)]
                  /\ issued' = IF issued.active
                               THEN [issued EXCEPT
                                       !.ticks = Min(@ + 1, MaxTicks)]
                               ELSE NoIssue
                  /\ UNCHANGED <<mem_Content, mem_exc>>
  /\ UNCHANGED <<scVars, mcVars, coreVars>>

\* a cycle in which the caller starts an access
tdm_issue ==
  /\ dp.phase = "access"
  /\ dp.wait = NotWaiting
  /\ \E address \in MemAddrs, size \in MemSizes :
       \/ tdm_read(address, size, FALSE)
       \/ tdm_write(address, MemValue(size), size)
  /\ Len(Requests') <= MaxQueue
  /\ dp' = [dp EXCEPT !.wait = AfterCall, !.phase = "tick"]
  /\ UNCHANGED <<scVars, mcVars, coreVars>>

\* a cycle in which the stalled stage makes its access again
tdm_reissue ==
  /\ dp.phase = "access"
  /\ dp.wait # NotWaiting
  /\ IF dp.wait.op = "read"
     THEN tdm_read(dp.wait.address, dp.wait.size, FALSE)
     ELSE tdm_write(dp.wait.address, MemValue(dp.wait.size), dp.wait.size)
  /\ dp' = [dp EXCEPT !.wait = AfterCall, !.phase = "tick"]
  /\ UNCHANGED <<scVars, mcVars, coreVars>>

\* a cycle without an access to the memory
tdm_no_access ==
  /\ mem_exc = "none"
  /\ dp.phase = "access"
  /\ dp.wait = NotWaiting
  /\ dp' = [dp EXCEPT !.phase = "tick"]
  /\ UNCHANGED <<scVars, mcVars, coreVars, memVars>>

InitTDM ==
  /\ \E bb \in BurstBytes, bt \in BurstTicks, rd \in ReadDelayTicks,
        pw \in PostedWrites :
       fixed_delay_memory_t(bb, bt, rd, pw)
  /\ \E num_cores \in 1..MaxCores, rf \in 0..MaxRefreshTicks :
       \E cpu_id \in 0..(num_cores - 1) :
         tdm_memory_t(num_cores, cpu_id, rf)
  /\ block_stack_cache_t(1, 1)
  /\ lru_method_cache_t("lru", NUM_INIT_BLOCKS)
  /\ simulator_t

NextTDM ==
  \/ tdm_issue
  \/ tdm_reissue
  \/ tdm_no_access
  \/ tdm_tick

SpecTDM == InitTDM /\ [][NextTDM]_vars

(***************************************************************************)
(* Properties of the stack cache.                                          *)
(***************************************************************************)
\* the size in blocks of the call last issued
CallBlocks == CeilDiv(sc_call.size, NUM_STACK_CACHE_BLOCK_BYTES)

\* the state is the one the call last issued found
StateAsBeforeCall ==
  /\ Num_reserved_blocks = sc_call.r0
  /\ Num_spilled_blocks = sc_call.s0
  /\ sc_Num_transfer_blocks = 0
  /\ sc_Phase = "IDLE"
  /\ Len(Content) = (sc_call.r0 + sc_call.s0) * NUM_STACK_CACHE_BLOCK_BYTES

\* C1: Num_reserved_blocks + Num_spilled_blocks never exceeds Num_blocks_total.
\* Stated for the states in which no transfer is pending and no exception was
\* raised, where the sum is the amount of stack data the limit is documented
\* to bound.
C1_TotalNeverExceeded ==
  (sc_exc = "none" /\ sc_Phase = "IDLE") =>
     Num_reserved_blocks + Num_spilled_blocks <= sc_Num_blocks_total

\* C2 as claimed: Num_reserved_blocks never exceeds Num_blocks, in any state.
C2_ReservedNeverExceedsCache == Num_reserved_blocks <= sc_Num_blocks

\* C2 as amended: whenever no blocks are pending transfer, Num_reserved_blocks
\* is at most Num_blocks; while a reserve waits for its spill, it is Num_blocks
\* plus the Num_transfer_blocks > 0 blocks being spilled.
C2_ReservedWithinCacheWhenSettled ==
  /\ sc_Num_transfer_blocks = 0 => Num_reserved_blocks <= sc_Num_blocks
  /\ sc_Phase = "SPILL" =>
       /\ sc_Num_transfer_blocks > 0
       /\ Num_reserved_blocks = sc_Num_blocks + sc_Num_transfer_blocks

\* C2: a reserve has returned false and waits for its spill
C2_Witness ==
  /\ sc_Phase = "SPILL" /\ sc_call.op = "reserve" /\ sc_call.ret = "false"
  /\ Num_reserved_blocks > sc_Num_blocks

\* what C3 says of a reserve that has returned true
ReservePost ==
  /\ Num_reserved_blocks = Min(sc_call.r0 + CallBlocks, sc_Num_blocks)
  /\ Num_spilled_blocks =
       sc_call.s0 + Max(0, sc_call.r0 + CallBlocks - sc_Num_blocks)
  /\ stack_top = sc_call.top0 -
       Max(0, sc_call.r0 + CallBlocks - sc_Num_blocks) * NUM_STACK_CACHE_BLOCK_BYTES

\* C3 as claimed: a reserve of any n blocks, n > Num_blocks included, that stays
\* within the total returns (it does not raise), and when it returns true
\* reserved = min(r+n, C), spilled grew by max(0, r+n-C) and the stack top
\* fell by the spilled bytes.
C3_ReserveAnySize ==
  sc_call.op = "reserve" =>
    /\ sc_call.ret = "true" => ReservePost
    /\ sc_call.ret = "exc" =>
         sc_call.r0 + CallBlocks + sc_call.s0 > sc_Num_blocks_total

\* C3 as amended: a reserve of n <= Num_blocks blocks that returns true leaves
\* reserved = min(r+n, C), spilled grown by max(0, r+n-C) and the stack top
\* lowered by the spilled bytes; a reserve of n > Num_blocks blocks raises
\* STACK_EXCEEDED.
C3_ReserveWithinCache ==
  sc_call.op = "reserve" =>
    /\ sc_call.ret = "true" => (CallBlocks <= sc_Num_blocks /\ ReservePost)
    /\ CallBlocks > sc_Num_blocks =>
         (sc_call.ret = "exc" /\ sc_exc = "STACK_EXCEEDED")

\* C3: a reserve that had to spill has returned true
C3_Witness ==
  /\ sc_call.op = "reserve" /\ sc_call.ret = "true"
  /\ sc_call.r0 + CallBlocks > sc_Num_blocks
  /\ Num_spilled_blocks > sc_call.s0
  /\ stack_top < sc_call.top0

\* C4: a reserve that would make reserved + spilled exceed Num_blocks_total
\* raises STACK_EXCEEDED and leaves the stack-cache state as the call found it.
C4_ReserveBeyondTotalFailsClean ==
  (sc_call.op = "reserve" /\
   sc_call.r0 + CallBlocks + sc_call.s0 > sc_Num_blocks_total) =>
     (sc_call.ret = "exc" /\ sc_exc = "STACK_EXCEEDED" /\ StateAsBeforeCall)

\* what C5 says of a free that has returned
FreePost ==
  /\ sc_call.ret = "true"
  /\ mem_op.kind = "none"
  /\ IF CallBlocks <= sc_call.r0
     THEN /\ Num_reserved_blocks = sc_call.r0 - CallBlocks
          /\ Num_spilled_blocks = sc_call.s0
          /\ stack_top = sc_call.top0
          /\ Num_free_empty = sc_call.fe0
     ELSE /\ Num_reserved_blocks = 0
          /\ Num_spilled_blocks = sc_call.s0 - (CallBlocks - sc_call.r0)
          /\ stack_top = sc_call.top0 +
               (CallBlocks - sc_call.r0) * NUM_STACK_CACHE_BLOCK_BYTES
          /\ Num_free_empty = sc_call.fe0 + 1

\* C5 as claimed: every free(n) with n <= reserved + spilled returns true with
\* the effects of FreePost.
C5_FreeWithinStack ==
  (sc_call.op = "free" /\ CallBlocks <= sc_call.r0 + sc_call.s0) => FreePost

\* C5 as amended: free(n) with n <= reserved + spilled and n <= Num_blocks
\* returns true with the effects of FreePost and issues no memory access; any
\* other free raises STACK_EXCEEDED and changes nothing.
C5_FreeWithinStackAndCache ==
  sc_call.op = "free" =>
    IF CallBlocks <= sc_call.r0 + sc_call.s0 /\ CallBlocks <= sc_Num_blocks
    THEN FreePost
    ELSE /\ sc_call.ret = "exc" /\ sc_exc = "STACK_EXCEEDED"
         /\ StateAsBeforeCall /\ stack_top = sc_call.top0
         /\ Num_free_empty = sc_call.fe0 /\ mem_op.kind = "none"

\* C5: a free that also freed blocks in main memory
C5_Witness ==
  /\ sc_call.op = "free" /\ sc_call.ret = "true"
  /\ CallBlocks > sc_call.r0 /\ sc_call.r0 > 0
  /\ Num_free_empty = sc_call.fe0 + 1
  /\ stack_top > sc_call.top0

\* C6 as claimed: ensure(n) raises STACK_EXCEEDED exactly when
\* n > reserved + spilled.
C6_EnsureFailsIffBeyondStack ==
  sc_call.op = "ensure" =>
    (sc_call.ret = "exc" <=> CallBlocks > sc_call.r0 + sc_call.s0)

\* C6 as amended: ensure(n) raises STACK_EXCEEDED exactly when
\* n > reserved + spilled or n > Num_blocks; otherwise it returns false while
\* the FILL of the n - reserved missing blocks is pending, and once it has
\* returned true reserved >= n, reserved + spilled is unchanged and the phase
\* is IDLE.
C6_EnsureFailsIffBeyondStackOrCache ==
  sc_call.op = "ensure" =>
    /\ sc_call.ret = "exc" <=>
         (CallBlocks > sc_call.r0 + sc_call.s0 \/ CallBlocks > sc_Num_blocks)
    /\ sc_call.ret = "exc" => (sc_exc = "STACK_EXCEEDED" /\ StateAsBeforeCall)
    /\ sc_call.ret = "false" =>
         /\ sc_Phase = "FILL"
         /\ sc_Num_transfer_blocks = CallBlocks - sc_call.r0
         /\ Num_reserved_blocks = sc_call.r0
         /\ Num_spilled_blocks = sc_call.s0
    /\ sc_call.ret = "true" =>
         /\ Num_reserved_blocks >= CallBlocks
         /\ Num_reserved_blocks + Num_spilled_blocks = sc_call.r0 + sc_call.s0
         /\ sc_Phase = "IDLE" /\ sc_Num_transfer_blocks = 0

\* C6: an ensure that had to fill has returned true
C6_Witness ==
  /\ sc_call.op = "ensure" /\ sc_call.ret = "true"
  /\ sc_call.r0 < CallBlocks
  /\ Num_reserved_blocks = CallBlocks
  /\ Num_spilled_blocks < sc_call.s0

\* C7: a read or write that extends beyond the resident slice of
\* Num_reserved_blocks blocks raises STACK_EXCEEDED.
C7_AccessBeyondResidentFails ==
  (sc_call.op \in {"read", "write"} /\
   sc_call.addr + sc_call.size >
     sc_call.r0 * NUM_STACK_CACHE_BLOCK_BYTES) =>
       (sc_call.ret = "exc" /\ sc_exc = "STACK_EXCEEDED")

(***************************************************************************)
(* Properties of the method cache.                                         *)
(***************************************************************************)
\* the address the step's call of is_available passes
RequestAddr == mc_call'.address

\* the size in blocks of the method the step requests
RequestBlocks == CeilDiv(SizeWord(RequestAddr), NUM_METHOD_CACHE_BLOCK_BYTES)

\* the step is a call of is_available for a method that is not resident, and
\* the call gets past the read of the size word (or does not come to it)
AnswersNonResident ==
  /\ Num_active_methods > 0 /\ mc_exc = "none"
  /\ mc_Phase \in {"IDLE", "SIZE"}
  /\ ~Resident(Methods, Num_active_methods, RequestAddr)
  /\ ~(mc_Phase' = "SIZE" /\ mc_exc' = "none")

RECURSIVE OldestBlocks(_, _, _)
\* the blocks of the k oldest of the active entries
OldestBlocks(methods, active, k) ==
  IF k = 0 THEN 0
  ELSE methods[mc_Num_blocks - active + k - 1].Num_blocks +
       OldestBlocks(methods, active, k - 1)

\* the requested method fits once the k oldest entries are gone
FitsWithout(k) ==
  Num_active_blocks - OldestBlocks(Methods, Num_active_methods, k) +
    RequestBlocks <= mc_Num_blocks

\* the least number of entries to evict for the requested method to fit
EvictedCount ==
  CHOOSE k \in 0..Num_active_methods :
    FitsWithout(k) /\ \A j \in 0..(k - 1) : ~FitsWithout(j)

\* the step evicts the oldest entries (Methods is sorted by age, and a hit in
\* the LRU cache makes an entry the youngest), as few as needed, keeps the
\* other entries in their order and puts the requested method on top
EvictsLeastRecentlyUsed ==
  LET pre == ActiveOrder(Methods, Num_active_methods)
      k == EvictedCount
  IN  /\ ActiveOrder(Methods', Num_active_methods') =
           Append(SubSeq(pre, k + 1, Num_active_methods), RequestAddr)
      /\ \A j \in 1..k : ~Resident(Methods', Num_active_methods', pre[j])

\* the step completes the load of the requested method
CompletesLoad ==
  /\ mc_exc = "none"
  /\ mc_Phase = "TRANSFER" /\ mc_Phase' = "IDLE"

\* C8: a request for a method of b blocks, 0 < b <= Num_blocks, that is not
\* resident is answered by loading it: the entries evicted are the least
\* recently used ones, no more of them than needed for the active blocks plus
\* b to fit in Num_blocks, the other entries stay resident in their previous
\* order and the evicted ones are not resident; when the load completes the
\* call returns true and the new method is the most recently used entry.
C8_MissEvictsLeastRecentlyUsed ==
  [][/\ (AnswersNonResident /\ RequestBlocks > 0 /\
         RequestBlocks <= mc_Num_blocks)
        => /\ EvictsLeastRecentlyUsed
           /\ mc_Phase' = "IDLE" => mc_call'.ret = "true"
     /\ CompletesLoad
        => /\ mc_call'.ret = "true"
           /\ Methods'[mc_Num_blocks - 1].Address = RequestAddr
           /\ ActiveOrder(Methods', Num_active_methods') =
                ActiveOrder(Methods, Num_active_methods)]_vars

\* C9: a request for a method that is not resident and whose size word gives
\* 0 blocks or more blocks than Num_blocks raises CODE_EXCEEDED and leaves
\* the resident methods and their order as they were.
C9_BadSizeRaisesCodeExceeded ==
  [][(AnswersNonResident /\
      (RequestBlocks = 0 \/ RequestBlocks > mc_Num_blocks))
     => /\ mc_call'.ret = "CODE_EXCEEDED"
        /\ mc_exc' = "CODE_EXCEEDED"
        /\ Num_active_methods' = Num_active_methods
        /\ \A i \in ActiveEntries(Num_active_methods) :
             Methods'[i] = Methods[i]]_vars

(***************************************************************************)
(* Properties of the simulator.                                            *)
(***************************************************************************)
\* the entry of the method cache the next fetch reads from
ActiveEntry == ActiveMethod(Methods, active_method)

\* the active entry is the method at BASE, and PC lies inside it
PCWithinActiveMethod ==
  /\ ActiveEntry.Address = BASE
  /\ BASE <= PC
  /\ PC < BASE + ActiveEntry.Num_bytes

\* C10 (as stated): at the end of every simulated cycle the active entry of
\* the method cache (LRU: the most recently used one, FIFO: the one matched
\* last) has the address BASE, and BASE <= PC < BASE + its size in bytes --
\* also at the end of a cycle that stalled, whatever the reason.
C10_EveryCycleBoundary ==
  (running /\ Cycle > 0 /\ core_exc = "none") => PCWithinActiveMethod

\* C10 (amended): at the end of every cycle that fetched a bundle the active
\* entry has the address BASE and BASE <= PC < BASE + its size in bytes, and
\* at the end of every cycle that leaves the method cache idle the active
\* entry has the address BASE.
C10_FetchedCycleBoundary ==
  (running /\ Cycle > 0 /\ core_exc = "none")
  => /\ cyc.fetched => PCWithinActiveMethod
     /\ mc_Phase = "IDLE" => ActiveEntry.Address = BASE

\* a bundle has been fetched from a method that a call loaded after a miss
C10_Witness ==
  /\ running /\ core_exc = "none" /\ cyc.fetched
  /\ mc_call.miss /\ mc_call.ret = "true"
  /\ BASE = mc_call.address /\ BASE # EntryAddr
  /\ PC > BASE

\* BASE, PC and nPC
ControlState(base, pc, npc) == [BASE |-> base, PC |-> pc, nPC |-> npc]

\* C15: in a cycle in which a taken call or return asks for its target and
\* the method cache reports it not available, the EX stage leaves BASE, PC
\* and nPC as they are and stalls, and the instruction stays in EX; in the
\* cycle in which the cache reports it available the EX stage sets BASE to
\* the target base and PC and nPC to the target and marks the instruction;
\* a marked instruction that is still in EX changes neither BASE, PC and
\* nPC nor the return registers, and asks the method cache nothing.
C15_FetchAndDispatchOnce ==
  [][(running /\ core_exc = "none" /\ core_exc' = "none") =>
       LET ops == Pipeline[SEX]
           q == PFLRequest(ops, 0)
       IN  /\ q.kind = "fetch_and_dispatch" =>
                 IF cyc'.available = "true"
                 THEN /\ cyc'.EX = ControlState(q.base, q.address, q.address)
                      /\ BASE' = q.base /\ PC' = q.address
                      /\ \E i \in {SEX, SMW} :
                           Pipeline'[i] = [ops EXCEPT !.EX_PFL_Discard = TRUE]
                 ELSE /\ cyc'.available = "false"
                      /\ cyc'.EX = ControlState(BASE, PC, nPC)
                      /\ cyc'.Stall >= SEX
                      /\ BASE' = BASE /\ nPC' = nPC
                      /\ Pipeline'[SEX] = ops
           /\ (ops.op \in {"call", "ret"} /\ ops.EX_PFL_Discard) =>
                 /\ cyc'.EX = ControlState(BASE, PC, nPC)
                 /\ cyc'.available = "none"
                 /\ BASE' = BASE /\ rfb' = rfb /\ rfo' = rfo
                 /\ UNCHANGED mcVars]_vars

\* a return that was dispatched stays in EX behind a load that stalls MW,
\* and the cycle after its dispatch has left BASE at its target
C15_Witness ==
  /\ running /\ core_exc = "none"
  /\ Pipeline[SEX].op = "ret"
  /\ Pipeline[SEX].EX_PFL_Discard
  /\ cyc.Stall = SMW
  /\ cyc.available = "none"
  /\ BASE = Pipeline[SEX].DR_Base
  /\ BASE # 0

\* a call stalls in EX while the method cache loads its target
C15_WitnessStalled ==
  /\ running /\ core_exc = "none"
  /\ Pipeline[SEX].op = "call"
  /\ ~Pipeline[SEX].EX_PFL_Discard
  /\ cyc.Stall = SEX
  /\ cyc.available = "false"

\* a return with a true predicate whose base register holds 0
HaltingReturn(ops) == ops.op = "ret" /\ ops.DR_Pred /\ ops.DR_Base = 0

\* C12: the cycle in which a return with a true predicate and the base 0 is
\* in the MW stage ends the run with the exception HALT.
C12_ReturnToZeroHalts ==
  [][(running /\ core_exc = "none" /\ HaltingReturn(Pipeline[SMW]))
       => core_exc' = "HALT"]_vars

(***************************************************************************)
(* The fixed-delay memory: latency and write posting.                      *)
(***************************************************************************)
\* the number of burst-aligned blocks that hold a byte of [a, a + s)
NumBursts(a, s) ==
  Cardinality({x \div Num_bytes_per_burst : x \in a..(a + s - 1)})

\* the latency of a load or a non-posted write
Latency(a, s) ==
  NumBursts(a, s) * Num_ticks_per_burst + Num_read_delay_ticks

\* the last call was an access to the request that is being timed
CallOfIssued ==
  /\ mem_exc = "none"
  /\ mem_call.op \in {"read", "write"}
  /\ issued.active \/ issued.done
  /\ mem_call.address = issued.address
  /\ mem_call.size = issued.size
  /\ (mem_call.op = "read") = issued.is_load

\* C17: a load, or a write of a memory that posts no writes, issued to an
\* idle memory returns not-ready on every call made before
\* num_bursts * burst_ticks + read_delay_ticks ticks have elapsed since the
\* call that issued it, and ready on the first call made after them.
C17_LatencyOfIdleMemory ==
  (CallOfIssued /\ (issued.is_load \/ Num_posted_writes = 0)) =>
    /\ mem_call.ret = (issued.ticks >= Latency(issued.address, issued.size))
    /\ mem_call.ret = issued.done

\* a load across two burst blocks of a memory with a read delay returned
\* ready at its latency
C17_Witness ==
  /\ CallOfIssued
  /\ issued.is_load /\ issued.done /\ mem_call.ret
  /\ NumBursts(issued.address, issued.size) >= 2
  /\ Num_read_delay_ticks > 0
  /\ issued.ticks = Latency(issued.address, issued.size)

\* a write to an idle memory that posts no writes was refused one tick
\* before its latency
C17_WitnessWrite ==
  /\ CallOfIssued
  /\ ~issued.is_load /\ Num_posted_writes = 0 /\ ~mem_call.ret
  /\ issued.ticks + 1 = Latency(issued.address, issued.size)

\* the write requests in the queue
OutstandingWrites ==
  Cardinality({i \in 1..Len(Requests) : ~Requests[i].Is_load})

\* the last call was a write to a memory that posts writes
PostedWriteCall ==
  /\ mem_exc = "none"
  /\ mem_call.op = "write"
  /\ Num_posted_writes > 0

\* the request of the last call is still in the queue
CallStillQueued ==
  MatchingRequests(Requests, mem_call.address, mem_call.size,
                   mem_call.op = "read") # {}

\* C18 as stated: with a posting depth N > 0 a write returns ready as long
\* as at most N posted writes, its own included, are outstanding.
C18_ReadyWhilePostedWritesWithinDepth ==
  (PostedWriteCall /\ OutstandingWrites <= Num_posted_writes) => mem_call.ret

\* C18: with a posting depth N > 0 a write whose request stays in the queue
\* returns ready exactly if the queue, loads and its own request included,
\* holds at most N requests; a write whose request is retired returns ready.
C18_ReadyWhileQueueWithinDepth ==
  PostedWriteCall =>
    IF CallStillQueued
    THEN mem_call.ret = (Len(Requests) <= Num_posted_writes)
    ELSE mem_call.ret

\* a write was refused behind a load although no other write is outstanding
C18_Witness ==
  /\ PostedWriteCall /\ CallStillQueued
  /\ ~mem_call.ret
  /\ OutstandingWrites = 1
  /\ Len(Requests) = Num_posted_writes + 1

\* a write was posted: it returned ready and its request is in the queue
C18_WitnessPosted ==
  /\ PostedWriteCall /\ CallStillQueued
  /\ mem_call.ret
  /\ Requests[1].Num_ticks_remaining > 0

\* a write of the bytes MemValue(size) to [address, address + size) was
\* answered ready by the posted branch and its request is in the queue
PostedWriteAccepted(address, size) ==
  /\ PostedWriteCall /\ CallStillQueued
  /\ mem_call.ret
  /\ mem_call.address = address
  /\ mem_call.size = size

\* the request of the write has left the queue and the store holds its bytes
PostedWriteCompleted(address, size) ==
  /\ ~Unmapped(address, size)
  /\ MatchingRequests(Requests, address, size, FALSE) = {}
  /\ ideal_memory_read(address, size) = MemValue(size)

\* C19: a posted write that returned ready is eventually completed: its
\* request leaves the queue and the backing store holds the bytes written
\* (or the simulation has ended with an exception).
C19_PostedWriteEventuallyCompleted ==
  \A address \in MemAddrs, size \in MemSizes :
    PostedWriteAccepted(address, size) ~>
      (PostedWriteCompleted(address, size) \/ mem_exc # "none")

(***************************************************************************)
(* The data path: forwarding, the decoupled load, alignment, statistics.   *)
(***************************************************************************)
\* the instruction set executed one bundle after the other: the registers
\* and the memory after a bundle, ok unless an access is refused; the slots
\* of a bundle read the registers as they are before the bundle
SeqInstr(before, st, ops) ==
  LET address == before.GPR[ops.Ra] + ops.Imm * ops.W
      refused == address % ops.W # 0 \/ Unmapped(address, ops.W)
  IN  IF ~PRR[ops.Pred] \/ ~st.ok
      THEN st
      ELSE CASE ops.I = "addi" ->
                  [st EXCEPT !.GPR = GPR_set(@, ops.Rd,
                                             before.GPR[ops.Ra] + ops.Imm)]
             [] ops.I = "ld" ->
                  IF refused
                  THEN [st EXCEPT !.ok = FALSE]
                  ELSE [st EXCEPT !.GPR =
                          GPR_set(@, ops.Rd,
                                  from_big_endian(
                                    [i \in 1..ops.W |->
                                       before.Memory[address + i - 1]]))]
             [] ops.I = "st" ->
                  IF refused
                  THEN [st EXCEPT !.ok = FALSE]
                  ELSE [st EXCEPT !.Memory =
                          [a \in DOMAIN @ |->
                             IF a >= address /\ a < address + ops.W
                             THEN to_big_endian(before.GPR[ops.Rs],
                                                ops.W)[a - address + 1]
                             ELSE @[a]]]
             [] ops.I = "dld" ->
                  IF refused THEN [st EXCEPT !.ok = FALSE] ELSE st
             [] OTHER -> st

\* the state after the first n bundles of the program
RECURSIVE Sequential(_, _)
Sequential(program, n) ==
  IF n = 0
  THEN [GPR |-> [r \in 0..2 |-> 0], Memory |-> MemoryImage, ok |-> TRUE]
  ELSE LET before == Sequential(program, n - 1)
           bundle == BundleAt(program, 4 * (n - 1))
       IN  SeqInstr(before, SeqInstr(before, before, bundle[1]), bundle[2])

\* an instruction reads a register the first slot of the bundle before it
\* writes with an addition whose predicate is true
ReadAfterWrite(program, ops) ==
  /\ ops.I = "addi"
  /\ ops.Address >= 4
  /\ LET producer == BundleAt(program, ops.Address - 4)[1]
     IN  /\ producer.I = "addi" /\ PRR[producer.Pred]
         /\ producer.Rd = ops.Ra /\ producer.Rd # 0

\* C13: an addition that reads the register the bundle before it writes has
\* computed, when it leaves the EX stage, the result of the sequential
\* execution of the program.
C13_ReadAfterWriteForwarded ==
  \A j \in 0..(NUM_SLOTS - 1) :
    LET ops == dp.Pipeline[SMW][j]
        before == Sequential(dp.program, ops.Address \div 4)
    IN  (ReadAfterWrite(dp.program, ops) /\ before.ok) =>
          ops.EX_result = before.GPR[ops.Ra] + ops.Imm

\* a cycle of the data path that ended without an exception
CycleDone == dp' # dp /\ dp'.exc.kind = "none"

\* the instruction of a slot is the same one, by its fetch address
SameInstr(a, b) == a.I = b.I /\ a.Address = b.Address

\* the value a load of the given size reads from the memory
LoadedValue(memory, address, size) ==
  from_big_endian([i \in 1..size |-> memory[address + i - 1]])

\* C14: a run that ends while the decoupled load is active, before the
\* value of the load has been written to sm, ends with an exception of a
\* memory access and never with a failed assertion.
C14_FirstLoadWrittenToSm ==
  (dp.Is_decoupled_load_active /\ dp.exc.kind # "none") =>
    dp.exc.kind \in {"UNALIGNED", "UNMAPPED"}

\* the part of C14 that holds of the DR stage and of sm: while the
\* decoupled load is active, a waitm or a decoupled load
\* with a true predicate stays in the DR stage and does not enter EX; when
\* the decoupled load is not active and MW does not stall, it moves to EX;
\* in the cycle the memory has the value of the decoupled load, sm becomes
\* the value at the address the load computed, and sm changes in no other
\* cycle.
C14_DecoupledLoadChannel ==
  [][CycleDone =>
       /\ \A j \in 0..(NUM_SLOTS - 1) :
            LET B == dp.Pipeline[SDR][j]
            IN  (B.I \in {"waitm", "dld"} /\ PRR[B.Pred]) =>
                  IF dp'.Is_decoupled_load_active
                  THEN /\ SameInstr(dp'.Pipeline[SDR][j], B)
                       /\ ~SameInstr(dp'.Pipeline[SEX][j], B)
                  ELSE dp'.Stalled # SMW =>
                         SameInstr(dp'.Pipeline[SEX][j], B)
       /\ IF dp'.dMW_loaded
          THEN /\ dp.Is_decoupled_load_active
               /\ dp'.sm = LoadedValue(dp.Memory,
                                       dp.Decoupled_load.EX_Address,
                                       dp.Decoupled_load.W)
          ELSE dp'.sm = dp.sm]_vars

\* a waitm that was held in DR is in EX after the cycle in which the
\* decoupled load wrote the half word at 2 to sm
C14_WitnessReleased ==
  /\ dp.exc.kind = "none"
  /\ dp.Pipeline[SEX][0].I = "waitm"
  /\ dp.Cycle > (dp.Pipeline[SEX][0].Address \div 4) + 3
  /\ dp.dMW_loaded
  /\ dp.sm = 1

\* a second decoupled load is held in DR by the first one
C14_WitnessHeld ==
  /\ dp.exc.kind = "none"
  /\ dp.Stalled = SDR
  /\ dp.Pipeline[SDR][0].I = "dld"
  /\ dp.Is_decoupled_load_active

\* the decoupled load raises an exception of its own in this cycle
DecoupledLoadRaises ==
  /\ dp.Decoupled_load.I = "dld"
  /\ \/ dp.Decoupled_load.EX_Address % dp.Decoupled_load.W # 0
     \/ Unmapped(dp.Decoupled_load.EX_Address, dp.Decoupled_load.W)

\* C16: a load or a store of 1, 2 or 4 bytes that is executed in MW, and a
\* decoupled load, at an address that is not a multiple of its size ends
\* the cycle with the exception UNALIGNED carrying the address; neither
\* the memory nor a register is written.
C16_UnalignedAccessRaises ==
  [][dp' # dp =>
       /\ LET ops == dp.Pipeline[SMW][0]
          IN  ( /\ ops.I \in {"ld", "st"} /\ ops.DR_Pred
                /\ ops.W \in {1, 2, 4}
                /\ ops.EX_Address % ops.W # 0
                /\ ~DecoupledLoadRaises ) =>
                /\ dp'.exc = simulation_exception_t("UNALIGNED",
                                                    ops.EX_Address)
                /\ dp'.Memory = dp.Memory
                /\ dp'.GPR = dp.GPR
       /\ LET ops == dp.Decoupled_load
          IN  ( /\ ops.I = "dld"
                /\ ops.W \in {1, 2, 4}
                /\ ops.EX_Address % ops.W # 0 ) =>
                /\ dp'.exc = simulation_exception_t("UNALIGNED",
                                                    ops.EX_Address)
                /\ dp'.Memory = dp.Memory
                /\ dp'.GPR = dp.GPR
                /\ dp'.sm = dp.sm]_vars

\* a half-word load at the address 1, read from r1, raised UNALIGNED
C16_Witness ==
  /\ dp.exc = simulation_exception_t("UNALIGNED", 1)
  /\ dp.Pipeline[SMW][0].I = "ld"
  /\ dp.Pipeline[SMW][0].W = 2
  /\ dp.GPR[1] = 1

\* a word store and a decoupled half-word load raised UNALIGNED
C16_WitnessStore ==
  /\ dp.exc.kind = "UNALIGNED"
  /\ dp.Pipeline[SMW][0].I = "st"
  /\ dp.Pipeline[SMW][0].EX_Address = dp.exc.info

C16_WitnessDecoupled ==
  /\ dp.exc.kind = "UNALIGNED"
  /\ dp.Decoupled_load.I = "dld"
  /\ dp.Decoupled_load.EX_Address = dp.exc.info
  /\ dp.exc.info % 2 = 1

\* the sum of a counter of the statistics over the slots and instructions
RECURSIVE SumOver(_, _)
SumOver(f, keys) ==
  IF keys = {}
  THEN 0
  ELSE LET k == CHOOSE x \in keys : TRUE
       IN  f[k] + SumOver(f, keys \ {k})

StatKeys == (0..(NUM_SLOTS - 1)) \X OpNames

Total(s, counter) ==
  SumOver([k \in StatKeys |-> s.Instruction_stats[k[1]][k[2]][counter]],
          StatKeys)

\* the instructions of an opcode in a slot that were fetched and have not
\* reached MW
InFlightBeforeMW(s, j, op) ==
  Cardinality({i \in SIF..SEX : s.Pipeline[i][j].I = op})

\* C20 as stated: when the run has ended, every instruction that reached MW
\* has been counted once, as retired or as discarded.
C20_CountedOnceWhenReachingMW ==
  dp.exc.kind # "none" =>
    \A j \in 0..(NUM_SLOTS - 1), op \in OpNames :
      dp.Instruction_stats[j][op].Num_retired +
      dp.Instruction_stats[j][op].Num_discarded =
        dp.Instruction_stats[j][op].Num_fetched - InFlightBeforeMW(dp, j, op)

\* C20: in a cycle in which MW does not stall, the instruction of each slot
\* of MW is counted once, as retired if its DR_Pred is true and as
\* discarded otherwise, and leaves MW; in a cycle in which MW stalls it
\* stays in MW and nothing is counted; for every opcode and slot the
\* instructions fetched are never fewer than those retired and discarded.
\* The instructions in MW in the cycle an exception ends the run are not
\* counted.
C20_CountedOnceWhenLeavingMW ==
  [][CycleDone =>
       /\ \A j \in 0..(NUM_SLOTS - 1), op \in OpNames :
            LET ops == dp.Pipeline[SMW][j]
                before == dp.Instruction_stats[j][op]
                after == dp'.Instruction_stats[j][op]
                leaves == dp'.Stalled # SMW /\ ops.I = op
            IN  /\ after.Num_retired = before.Num_retired +
                      (IF leaves /\ ops.DR_Pred THEN 1 ELSE 0)
                /\ after.Num_discarded = before.Num_discarded +
                      (IF leaves /\ ~ops.DR_Pred THEN 1 ELSE 0)
       /\ \A j \in 0..(NUM_SLOTS - 1) :
            IF dp'.Stalled = SMW
            THEN SameInstr(dp'.Pipeline[SMW][j], dp.Pipeline[SMW][j])
            ELSE SameInstr(dp'.Pipeline[SMW][j], dp.Pipeline[SEX][j]) \/
                 dp'.Pipeline[SMW][j].I = "none"
       /\ \A j \in 0..(NUM_SLOTS - 1), op \in OpNames :
            dp'.Instruction_stats[j][op].Num_fetched >=
              dp'.Instruction_stats[j][op].Num_retired +
              dp'.Instruction_stats[j][op].Num_discarded
       /\ Total(dp', "Num_fetched") >=
            Total(dp', "Num_retired") + Total(dp', "Num_discarded")]_vars

\* a load that was held in MW has been counted once as retired, beside it
\* no instruction was in flight; a predicated-off addition was discarded
C20_Witness ==
  /\ dp.exc.kind = "none"
  /\ dp.program[1][1].I = "ld"
  /\ dp.program[2][1].I = "addi"
  /\ dp.Pipeline[SMW][0].Address = 4
  /\ dp.Pipeline[SMW][0].I = "addi"
  /\ dp.Cycle > 5
  /\ dp.Instruction_stats[0]["ld"].Num_retired = 1

C20_WitnessDiscarded ==
  /\ dp.Instruction_stats[1]["addi"].Num_discarded = 1
  /\ dp.Instruction_stats[0]["waitm"].Num_discarded = 1

(***************************************************************************)
(* Exceptions and the state a cycle leaves.                                *)
(***************************************************************************)
\* C11: a cycle of the data path that ends with a simulation exception
\* leaves the general registers, the special register sm and the memory as
\* they were at the start of the cycle.
C11_ExceptionLeavesStateOfCycleStart ==
  [][dp'.exc.kind \in {"UNALIGNED", "UNMAPPED"} =>
       /\ dp'.GPR = dp.GPR
       /\ dp'.sm = dp.sm
       /\ dp'.Memory = dp.Memory]_vars

\* the same of the control flow: a cycle that ends with an exception leaves
\* BASE, PC and the return registers as they were
ExceptionLeavesControlState ==
  [][(core_exc = "none" /\ core_exc' # "none") =>
       /\ BASE' = BASE /\ PC' = PC
       /\ rfb' = rfb /\ rfo' = rfo]_vars

(***************************************************************************)
(* The method cache: the phases of a request, hits, and what is reported   *)
(* present.                                                                *)
(***************************************************************************)
\* the phase moves by at most one step of IDLE, SIZE, TRANSFER, IDLE
AtMostOneStep ==
  \/ mc_Phase' = mc_Phase
  \/ <<mc_Phase, mc_Phase'>> \in {<<"IDLE", "SIZE">>, <<"SIZE", "TRANSFER">>,
                                  <<"TRANSFER", "IDLE">>}

\* the step is a call of is_available that returns true or false
CallReturns == Num_active_methods > 0 /\ mc_exc = "none" /\ mc_exc' = "none"

\* C23 as stated: a call of is_available moves the phase by at most one
\* step, and the call that answers a miss with true is not the first call
\* made for the request.
C23_OneStepPerCall ==
  [][CallReturns =>
       /\ AtMostOneStep
       /\ (mc_call'.miss /\ mc_call'.ret = "true") => ~mc_call'.first]_vars

\* the phase the call leaves a request for a method of a valid size in,
\* given the phase it finds and what Memory.read answers
PhaseLeft(phase, size_ready, transfer_ready) ==
  IF phase \in {"IDLE", "SIZE"} /\ ~size_ready THEN "SIZE"
  ELSE IF transfer_ready THEN "IDLE" ELSE "TRANSFER"

\* C23: a call of is_available goes on through the phases as far as the
\* memory answers: from IDLE (on a miss) or SIZE it stays in SIZE if the
\* size word is not ready, else goes on to TRANSFER, and from there to IDLE
\* if the instructions are ready; it returns true exactly if it leaves the
\* phase IDLE.  A miss is answered true by the first call if both reads are
\* ready.
C23_CallGoesOnWhileMemoryAnswers ==
  [][CallReturns =>
       /\ mc_call'.ret = "true" <=> mc_Phase' = "IDLE"
       /\ (mc_Phase # "IDLE" \/ mc_call'.miss) =>
             mc_Phase' = PhaseLeft(mc_Phase, mc_call'.size_ready,
                                   mc_call'.transfer_ready)]_vars

\* a miss is answered true by the first call made for it, the method is
\* loaded and is the most recently used entry
C23_Witness ==
  /\ mc_exc = "none" /\ mc_Phase = "IDLE"
  /\ mc_call.miss /\ mc_call.first /\ mc_call.ret = "true"
  /\ Methods[mc_Num_blocks - 1].Address = mc_call.address
  /\ Methods[mc_Num_blocks - 1].Instructions.from = mc_call.address
  /\ mc_call.address # EntryAddr

\* the step is a call of is_available in phase IDLE for a resident method
HitStep ==
  /\ Num_active_methods > 0 /\ mc_exc = "none" /\ mc_Phase = "IDLE"
  /\ Resident(Methods, Num_active_methods, mc_call'.address)

\* the active entries, the oldest first
ActiveRecords(methods, active) ==
  [k \in 1..active |-> methods[mc_Num_blocks - active + k - 1]]

\* the hit leaves the resident methods, their sizes and the phase as they
\* were and returns true
HitKeepsResidentMethods ==
  /\ mc_call'.ret = "true" /\ mc_exc' = "none"
  /\ mc_Phase' = "IDLE"
  /\ Num_active_methods' = Num_active_methods
  /\ Num_active_blocks' = Num_active_blocks
  /\ {Methods'[i] : i \in ActiveEntries(Num_active_methods)} =
       {Methods[i] : i \in ActiveEntries(Num_active_methods)}

\* the hit entry becomes the most recently used one, the other entries keep
\* their order
HitPromotes ==
  LET pre == ActiveRecords(Methods, Num_active_methods)
      IsHit(e) == e.Address = mc_call'.address
      IsOther(e) == e.Address # mc_call'.address
  IN  ActiveRecords(Methods', Num_active_methods) =
        SelectSeq(pre, IsOther) \o SelectSeq(pre, IsHit)

\* C24: a call of is_available for a resident method returns true and
\* leaves the resident methods, their sizes and the phase as they were; in
\* the LRU cache the entry hit becomes the most recently used one and the
\* others keep their order, in the FIFO cache no entry moves and
\* active_method becomes the index of the entry hit.
C24_HitFrame ==
  [][HitStep =>
       /\ HitKeepsResidentMethods
       /\ IF mc_kind = "lru"
          THEN HitPromotes
          ELSE /\ Methods' = Methods
               /\ active_method' = MatchIndex(Methods, Num_active_methods,
                                              mc_call'.address)]_vars

\* C24 holds of the LRU cache, and of the FIFO cache that is not full
HitFrameUnlessFullFifo ==
  [][(HitStep /\ ~(mc_kind = "fifo" /\ ScanLeavesArray(Num_active_methods)))
       => /\ HitKeepsResidentMethods
          /\ IF mc_kind = "lru"
             THEN HitPromotes
             ELSE /\ Methods' = Methods
                  /\ active_method' = MatchIndex(Methods, Num_active_methods,
                                                 mc_call'.address)]_vars

\* the instructions of the method at the address have been transferred to
\* the buffer of an active entry
Transferred(address) ==
  \E i \in ActiveEntries(Num_active_methods) :
    /\ Methods[i].Address = address
    /\ Methods[i].Instructions.from = address

\* C25: while the scan of the entries stays inside the array, a method that
\* assert_availability reports present is a method whose instructions have
\* been transferred, and so is the method for which is_available has
\* returned true.
C25_PresentOnlyAfterTransfer ==
  (mc_exc = "none" /\ ~ScanLeavesArray(Num_active_methods)) =>
    /\ \A address \in MethodAddrs, wild \in WildOutcomes :
         assert_availability(Methods, Num_active_methods, address, wild)
           = "true" => Transferred(address)
    /\ mc_call.ret = "true" => Transferred(mc_call.address)

\* the part of C25 that holds: the method for which is_available has
\* returned true has been transferred
AvailableOnlyAfterTransfer ==
  (mc_exc = "none" /\ mc_call.ret = "true") => Transferred(mc_call.address)

(***************************************************************************)
(* The exception that leaves run().                                        *)
(***************************************************************************)
\* an exception has left run()
ExceptionLeft == dp.left.Kind # "none"

\* C21: the exception that leaves run has the kind and the detail (the
\* numeric info or the free-form message, as get_message gives it) of the
\* exception thrown inside the loop, and the PC and the cycle counter of the
\* iteration that threw it
C21_ExceptionLeavesWithItsDetail ==
  ExceptionLeft =>
    /\ dp.left.Kind = dp.thrown.Kind
    /\ get_message(dp.left) = get_message(dp.thrown)
    /\ dp.left.PC = dp.PC
    /\ dp.left.Cycle = dp.Cycle

\* the kind, the numeric info, the PC and the cycle counter are carried
ExceptionLeavesWithItsInfo ==
  ExceptionLeft =>
    /\ dp.left.Kind = dp.thrown.Kind
    /\ dp.left.Info = dp.thrown.Info
    /\ dp.left.PC = dp.PC
    /\ dp.left.Cycle = dp.Cycle

C27_WitnessFrozen ==
  /\ dp.exc.kind = "none"
  /\ dp.Stalled = SMW
  /\ dp.Pipeline[SMW][0].I = "ld"
  /\ dp.Pipeline[SEX][0].I # "none"

(***************************************************************************)
(* The simulation functions invoked in a cycle.                            *)
(***************************************************************************)
\* the functions of a pass over the stages MW, EX, DR, IF, each on both
\* slots
StagePass(suffix) ==
  <<"MW" \o suffix, "MW" \o suffix, "EX" \o suffix, "EX" \o suffix,
    "DR" \o suffix, "DR" \o suffix, "IF" \o suffix, "IF" \o suffix>>

\* C26: in a cycle dMW is invoked first, then the functions of the stages
\* in the order MW, EX, DR, IF on both slots, and after all of them the
\* commit functions in the same order of the stages.
C26_HookOrder ==
  [][CycleDone =>
       dp'.hooks = <<"dMW">> \o StagePass("") \o StagePass("_commit")]_vars

\* what a cycle invokes: dMW, then MW, EX and DR on both slots
HooksInvoked ==
  [][CycleDone =>
       dp'.hooks = <<"dMW", "MW", "MW", "EX", "EX", "DR", "DR">>]_vars

(***************************************************************************)
(* The hand-over of a decoupled load to the side channel.                  *)
(***************************************************************************)
\* the EX function of the cycle has run on a decoupled load with a true
\* predicate in the slot of EX: the load is handed to Decoupled_load
HandsOver(j) ==
  /\ dp.exc.kind = "none"
  /\ dp.Pipeline[SEX][j].I = "dld"
  /\ dp.Pipeline[SEX][j].DR_Pred
  /\ Len(dp'.hooks) >= 4 + j

\* C30: the check of the EX function for an active channel never fails,
\* and a decoupled load with a true predicate is handed to the channel in
\* one cycle only, the first in which it is in EX, with the channel free
\* at the start of the cycle or freed by dMW in it.
C30_HandedOverOnce ==
  [][dp' # dp =>
       /\ dp'.exc.kind # "ABORT"
       /\ \A j \in 0..(NUM_SLOTS - 1) :
            HandsOver(j) =>
              /\ dp.Stalled # SMW
              /\ ~dp.Is_decoupled_load_active \/ dp'.dMW_loaded]_vars

\* without a stall of MW in the cycle before, the hand-over finds the
\* channel free and the check passes
HandedOverOnceUnlessHeld ==
  [][(dp' # dp /\ dp.Stalled # SMW) =>
       /\ dp'.exc.kind # "ABORT"
       /\ \A j \in 0..(NUM_SLOTS - 1) :
            HandsOver(j) =>
              ~dp.Is_decoupled_load_active \/ dp'.dMW_loaded]_vars

(***************************************************************************)
(* Instructions whose predicate is false.                                  *)
(***************************************************************************)
\* the stack-control instruction in MW has a false predicate
PredicatedOffInMW ==
  /\ dp.Pipeline[SMW].I # "none"
  /\ ~dp.Pipeline[SMW].DR_Pred

\* C29: a cycle in which the stack-control instruction in MW has a false
\* predicate leaves the special register st and the stack cache, with its
\* counters, as a bubble in its place would.
C29_PredicatedOffChangesNothing ==
  [][(dp' # dp /\ PredicatedOffInMW) =>
       /\ stack_top' = stack_top
       /\ Num_reserved_blocks' = Num_reserved_blocks
       /\ Num_spilled_blocks' = Num_spilled_blocks
       /\ Content' = Content]_vars

\* the instruction with a false predicate calls no function of the stack
\* cache and writes to st the value it read in DR
PredicatedOffWritesStaleTop ==
  [][(dp' # dp /\ PredicatedOffInMW) =>
       /\ stack_top' = dp.Pipeline[SMW].DR_Ss
       /\ Num_reserved_blocks' = Num_reserved_blocks
       /\ Num_spilled_blocks' = Num_spilled_blocks
       /\ Content' = Content
       /\ sc_exc' = "none"]_vars

(***************************************************************************)
(* Forwarding when MW stalls: the run of a program against the run of the  *)
(* same program with a memory that is always ready.                        *)
(***************************************************************************)
\* the run of n cycles with a memory that answers every access at once
RECURSIVE RunReady(_, _)
RunReady(s, n) ==
  IF n = 0 \/ s.exc.kind # "none"
  THEN s
  ELSE LET x == InvokeStages(s, TRUE, TRUE)
       IN  IF x.exc.kind # "none"
           THEN x
           ELSE RunReady(FetchSlots(MoveSlots(TrackRetired(x))), n - 1)

\* the instructions of the program have left the pipeline and the
\* decoupled load has been delivered
Drained(s) ==
  /\ s.exc.kind = "none"
  /\ ~s.Is_decoupled_load_active
  /\ \A i \in SIF..SMW, j \in 0..(NUM_SLOTS - 1) :
       \/ s.Pipeline[i][j].I = "none"
       \/ s.Pipeline[i][j].Address >= 4 * Len(s.program)
  /\ s.PC >= 4 * Len(s.program)

\* what a run leaves: the registers, the memory, and how it ended
Outcome(s) ==
  [GPR |-> s.GPR, sm |-> s.sm, Memory |-> s.Memory, exc |-> s.exc.kind]

\* C28: when the run of a program has ended or its instructions have left
\* the pipeline, the registers, sm and the memory are those of the run of
\* the program in which the memory is always ready and MW never stalls;
\* after a cycle in which MW stalls the EX by-pass of both slots is reset.
C28_ForwardingUnderBackPressure ==
  /\ (Drained(dp) \/ dp.exc.kind # "none") =>
       Outcome(dp) =
         Outcome(RunReady([simulator_dp(dp.program) EXCEPT !.NDEBUG = dp.NDEBUG],
                          max_cycles(dp.program)))
  /\ dp.Stalled = SMW =>
       \A j \in 0..(NUM_SLOTS - 1) : dp.Pipeline[SEX][j].GPR_EX_Rd = by_pass_t

(***************************************************************************)
(* The dispatch of an interrupt.                                           *)
(***************************************************************************)
\* the fetch cycle is not stalled and is one of the three after a dispatch
InWindow == dp'.Stalled = SIF /\ dp.since < 3

\* C22: an interrupt is dispatched only in a fetch cycle that is not
\* stalled, with no control-flow instruction among the last two bundles
\* fetched and outside the three fetch cycles after a dispatch; the cycle
\* that dispatches leaves the interrupt bundle in slot 0 and a bubble in
\* slot 1 of IF and s9 = PC; each of the next three fetch cycles that are
\* not stalled leaves bubbles in IF and nPC as it was.
C22_InterruptDispatch ==
  [][dp' # dp =>
       /\ dp'.did = "dispatch" =>
            /\ dp'.Stalled = SIF
            /\ dp.flow2 = <<FALSE, FALSE>>
            /\ ~InWindow
            /\ dp'.exc = "none"
            /\ dp'.bundle = <<"intr", "none">>
            /\ dp'.s9 = dp'.PC
       /\ InWindow =>
            /\ dp'.exc = "none"
            /\ dp'.bundle = <<"none", "none">>
            /\ dp'.nPC = dp.nPC]_vars

\* the same, for the cycles that the reads of iw_size and the count of the
\* pseudo instruction let pass
DispatchUnlessIllegal ==
  [][dp' # dp =>
       /\ dp'.did = "dispatch" =>
            /\ dp'.Stalled = SIF
            /\ dp.flow2 = <<FALSE, FALSE>>
            /\ ~InWindow
            /\ dp'.bundle = <<"intr", "none">>
            /\ dp'.s9 = dp'.PC
       /\ InWindow =>
            /\ dp'.bundle = <<"none", "none">>
            /\ dp'.nPC = dp.nPC]_vars


(***************************************************************************)
(* The scans of lookup and assert_availability, and the counters of the    *)
(* method cache.                                                           *)
(***************************************************************************)
\* C39: for every number of active methods, the cache filled with
\* Num_blocks methods included, lookup and assert_availability return false
\* for an address that is not resident, and lookup leaves Methods as it is.
C39_ScanStaysInArray ==
  \A a \in MethodAddrs, wild \in WildOutcomes :
    ~Resident(Methods, Num_active_methods, a) =>
      /\ assert_availability(Methods, Num_active_methods, a, wild) = "false"
      /\ lookup(Methods, Num_active_methods, a, wild) =
           [ret |-> "false", Methods |-> Methods]

\* the sum of the block counts of the active entries
RECURSIVE SumBlocks(_, _)
SumBlocks(methods, entries) ==
  IF entries = {} THEN 0
  ELSE LET i == CHOOSE i \in entries : TRUE
       IN  methods[i].Num_blocks + SumBlocks(methods, entries \ {i})

\* C40: in every state of the method cache, from initialize onward and for
\* every cache size, Num_active_blocks is the sum of the block counts of the
\* Num_active_methods most recently used entries, and neither counter
\* exceeds Num_blocks.
C40_CountersWithinCache ==
  /\ Num_active_blocks = SumBlocks(Methods, ActiveEntries(Num_active_methods))
  /\ Num_active_methods <= mc_Num_blocks
  /\ Num_active_blocks <= mc_Num_blocks


(***************************************************************************)
(* The target of a PC-relative branch.                                     *)
(***************************************************************************)
\* a branch with a true predicate in EX that has not been dispatched yet
TakenBranch(ops) == ops.op = "b" /\ ops.DR_Pred /\ ~ops.EX_PFL_Discard

\* C31: the EX stage of a taken PC-relative branch sets PC and nPC to the
\* address at which the bundle of the branch was fetched plus four times
\* its immediate, whatever the number of cycles the branch has waited.
C31_BranchTargetFromFetchAddress ==
  [][(running /\ core_exc = "none" /\ core_exc' = "none" /\
      TakenBranch(Pipeline[SEX])) =>
       LET ops == Pipeline[SEX]
       IN  cyc'.EX = ControlState(BASE, ops.Address + ops.Imm * 4,
                                  ops.Address + ops.Imm * 4)]_vars

\* a taken branch is in EX, fetched at an address other than 0
C31_BranchInEX ==
  /\ running /\ core_exc = "none"
  /\ TakenBranch(Pipeline[SEX])
  /\ Pipeline[SEX].Address # 0


(***************************************************************************)
(* The memory ranges of spill and fill, and the stack top.                 *)
(***************************************************************************)
\* the step issues the read of a fill for exactly the blocks of the last
\* spill: nothing was spilled, filled or freed in memory since
FillsLastSpill ==
  /\ mem_op'.kind = "read"
  /\ dp.size > 0
  /\ mem_op'.size = dp.size
  /\ Num_spilled_blocks = dp.spilled

\* C32: the write of a spill of k blocks covers the k blocks below the
\* stack top the reserve was called with, and the read of a later ensure
\* that fills those k blocks covers the same range.
C32_FillReadsWhatSpillWrote ==
  [][/\ mem_op'.kind = "write" => mem_op'.addr = stack_top - mem_op'.size
     /\ FillsLastSpill => mem_op'.addr = dp.addr]_vars

\* the write of a spill starts at the stack top the reserve was called with
SpillWritesAtTop ==
  [][mem_op'.kind = "write" => mem_op'.addr = stack_top]_vars

\* the read of the fill of the blocks of the last spill begins twice the
\* size of the spill below the address the write of the spill began at
FillReadsBelowSpill ==
  [][FillsLastSpill =>
       /\ mem_op'.addr + 2 * dp.size = dp.addr
       /\ stack_top' = stack_top]_vars

\* C33: in every state in phase IDLE the stack top is its initial value
\* less the bytes of the blocks spilled.
C33_TopTracksSpilledBlocks ==
  (sc_exc = "none" /\ sc_Phase = "IDLE") =>
    stack_top = StackTopInit - Num_spilled_blocks * NUM_STACK_CACHE_BLOCK_BYTES

\* the same as long as no fill has completed
TopTracksSpilledBlocksUnlessFilled ==
  [][(sc_exc' = "none" /\ sc_Phase' = "IDLE" /\
      stack_top = StackTopInit - Num_spilled_blocks * NUM_STACK_CACHE_BLOCK_BYTES /\
      ~(mem_op'.kind = "read" /\ sc_call'.ret = "true")) =>
       stack_top' =
         StackTopInit - Num_spilled_blocks' * NUM_STACK_CACHE_BLOCK_BYTES]_vars


(***************************************************************************)
(* Stack-control instructions in consecutive bundles.                      *)
(***************************************************************************)
\* every stack-control instruction fetched has left MW
StackControlDrained ==
  /\ dp.running
  /\ dp.Num_fetched > 0
  /\ \A i \in SIF..SMW : dp.Pipeline[i].I = "none"

\* C34: once the instructions sres, sens and sfree of a program have left
\* MW, the special register st holds the stack top that reserve, ensure and
\* free yield when they are applied one after another, each to the stack
\* top its predecessor left.
C34_PipelinedAsSequential ==
  StackControlDrained => stack_top = dp.seq

\* the same for the instructions whose predecessor left MW before they
\* were in DR
AsSequentialWhenTopCurrent ==
  [][(dp' # dp /\ dp.Pipeline[SMW].I # "none" /\ stack_top = dp.seq /\
      dp.Pipeline[SMW].DR_Ss = stack_top /\
      dp'.running /\ dp'.Stalled = SIF) =>
       stack_top' = dp'.seq]_vars


(***************************************************************************)
(* Operations of the stack cache while a transfer is pending.              *)
(***************************************************************************)
\* the MW function invoked next belongs to an instruction other than the
\* one whose spill or fill is pending
OtherWhilePending ==
  /\ dp.running
  /\ sc_Phase # "IDLE"
  /\ dp.bundle[dp.slot].I # "none"
  /\ dp.slot # dp.owner

\* C35: while a spill or a fill is pending no instruction other than the
\* one that waits for it performs an operation of the stack cache, the
\* instruction in the other slot of the bundle included; and in phase IDLE
\* read and write return true.
C35_TransfersSerialize ==
  [][dp' # dp =>
       /\ OtherWhilePending =>
            /\ UNCHANGED <<sc_Phase, sc_Num_transfer_blocks, Num_reserved_blocks,
                           Num_spilled_blocks, Content, stack_top, sc_call>>
            /\ sc_exc' = "none"
       /\ (sc_Phase = "IDLE" /\ dp.bundle[dp.slot].I \in {"lws", "sws"} /\
           sc_exc' = "none") => sc_call'.ret = "true"]_vars

\* the same for the bundles with a bubble in slot 1
TransfersSerializeInSlot0 ==
  [][(dp' # dp /\ dp.bundle[1].I = "none") =>
       /\ ~OtherWhilePending
       /\ (sc_Phase = "IDLE" /\ dp.bundle[dp.slot].I \in {"lws", "sws"} /\
           sc_exc' = "none") => sc_call'.ret = "true"]_vars


(***************************************************************************)
(* The request queue of the fixed-delay memory.                            *)
(***************************************************************************)
\* the step is a call of read or write for the access (address, size,
\* direction)
AccessStep(address, size, is_load) ==
  /\ mem_call'.op = (IF is_load THEN "read" ELSE "write")
  /\ mem_call'.address = address
  /\ mem_call'.size = size
  /\ mem_exc' = "none"

\* C36: the requests are served in the order of their arrival: a call for
\* an access that has a request in the queue adds none, a call without one
\* appends its request behind the others; a tick counts down the head and
\* nothing else; and a request leaves the queue only as the head with no
\* ticks remaining, at the call that asked for it or, if it is marked
\* posted, at the tick that counts it down to zero.
C36_StrictFifo ==
  [][/\ \A address \in MemAddrs, size \in MemSizes, is_load \in BOOLEAN :
          AccessStep(address, size, is_load) =>
            LET found == MatchingRequests(Requests, address, size, is_load)
            IN  IF found # {}
                THEN \/ Requests' = Requests
                     \/ /\ Requests' = Tail(Requests)
                        /\ 1 \in found
                        /\ Requests[1].Num_ticks_remaining = 0
                        /\ mem_call'.ret
                ELSE /\ Len(Requests') = Len(Requests) + 1
                     /\ SubSeq(Requests', 1, Len(Requests)) = Requests
                     /\ Requests'[Len(Requests')].Num_ticks_remaining > 0
     /\ mem_call'.op = "tick" =>
          \/ Requests' = Requests /\
               (Requests = <<>> \/ Requests[1].Num_ticks_remaining = 0)
          \/ /\ Requests # <<>>
             /\ Requests[1].Num_ticks_remaining > 0
             /\ \/ Requests' = [Requests EXCEPT ![1].Num_ticks_remaining = @ - 1]
                \/ /\ Requests' = Tail(Requests)
                   /\ Requests[1].Num_ticks_remaining = 1
                   /\ Requests[1].Is_posted]_vars

\* a read has retired its request at the head while a younger request
\* waits in the queue, not yet counted down
C36_Witness ==
  /\ mem_call.op = "read" /\ mem_call.ret
  /\ Len(Requests) = 1
  /\ Requests[1].Num_ticks_remaining > 0
  /\ ~(Requests[1].Address = mem_call.address /\
       Requests[1].Size = mem_call.size /\ Requests[1].Is_load)


(***************************************************************************)
(* Progress of the fixed-delay memory.                                     *)
(***************************************************************************)
\* C37: with the memory ticked in every cycle and every access that was
\* answered not ready issued again, every access is eventually answered
\* ready, a read issued after a write that was accepted as posted included,
\* and no request stays in the queue forever with no ticks remaining.
C37_EveryAccessEventuallyReady ==
  /\ (dp # NotWaiting) ~> (dp = NotWaiting)
  /\ (Requests # <<>>) ~> (Requests = <<>> \/ mem_exc # "none")

\* the same for the memory that posts no writes
EveryAccessEventuallyReadyUnposted ==
  /\ (Num_posted_writes = 0 /\ dp # NotWaiting) ~> (dp = NotWaiting)
  /\ (Num_posted_writes = 0 /\ Requests # <<>>) ~>
       (Requests = <<>> \/ mem_exc # "none")

\* a write accepted as posted leaves a request that no caller waits for;
\* it stays at the head with no ticks remaining while a read waits behind it
DeadRequestAtHead ==
  /\ dp.op = "read"
  /\ Len(Requests) = 2
  /\ Requests[1].Num_ticks_remaining = 0
  /\ ~Requests[1].Is_load


(***************************************************************************)
(* Properties of the TDM memory.                                           *)
(***************************************************************************)
\* a tick that counts down the head of the queue
HeadCountedDown ==
  /\ dp.phase = "tick"
  /\ Requests # <<>>
  /\ Requests' # Requests

\* the tick_request assertion of tick() has failed
OverlappingTransfers == mem_exc = "ABORT" /\ mem_call.op = "tick"

\* the count of the head goes down only in the tick that ends the slot of
\* this core, and not twice within one round
CountedDownAtSlotEnd ==
  [][HeadCountedDown =>
       /\ dp'.Round_counter =
            (dp.Round_start + Num_ticks_per_burst +
             (IF Requests[1].Is_posted THEN 0 ELSE Num_read_delay_ticks))
            % dp.Round_length
       /\ dp.since + 1 >= dp.Round_length]_vars

\* C38: in the TDM memory the remaining count of the head of the queue
\* decreases only at the tick that ends the slot of this core (slot start
\* plus burst ticks, plus the read delay for requests that are not posted,
\* modulo the round length), at most once per round, and the assertion on
\* overlapping transfers at the start of a slot never fails.
C38_CountedDownOncePerRound ==
  [][/\ HeadCountedDown =>
          /\ dp'.Round_counter =
               (dp.Round_start + Num_ticks_per_burst +
                (IF Requests[1].Is_posted THEN 0 ELSE Num_read_delay_ticks))
               % dp.Round_length
          /\ dp.since + 1 >= dp.Round_length
     /\ ~OverlappingTransfers']_vars

\* the assertion holds in a memory that posts no writes
NoOverlapUnposted == Num_posted_writes = 0 => ~OverlappingTransfers

\* a request has been counted down to zero in a second round
CountedDownInSecondRound ==
  /\ dp.since = 0
  /\ Requests # <<>>
  /\ Requests[1].Num_ticks_remaining = 0
  /\ Requests[1].Size > Num_bytes_per_burst

====
